---- MODULE Spec2Model ----
(***************************************************************************)
(* dart-ql: generation of GraphQL operation documents and fragments from a *)
(* parsed schema (src/src/generator.js).                                   *)
(*                                                                         *)
(* Texts (file contents, operation strings, names) are TLA+ strings, read  *)
(* character by character with SubSeq, so every regular expression of the  *)
(* source is modelled by the scan it performs on the characters.           *)
(* A schema is the object graph that buildASTSchema(parse(sdl)) returns:   *)
(* the type map in its iteration order, each type with its AST kind, its   *)
(* fields in declaration order and each field's wrapped type reference.    *)
(***************************************************************************)
EXTENDS Integers, Sequences, FiniteSets, TLC

(***************************************************************************)
(* Characters and JavaScript string primitives                             *)
(***************************************************************************)
Ch(s, i) == SubSeq(s, i, i)

LowerAlpha == "abcdefghijklmnopqrstuvwxyz"
UpperAlpha == "ABCDEFGHIJKLMNOPQRSTUVWXYZ"

CharsOf(s) == {Ch(s, i) : i \in 1..Len(s)}

LowerChars == CharsOf(LowerAlpha)
UpperChars == CharsOf(UpperAlpha)
DigitChars == CharsOf("0123456789")

\* [A-Za-z0-9_], also \w
WordChars == LowerChars \cup UpperChars \cup DigitChars \cup {"_"}

\* \s and the characters String.prototype.trim strips, among the ASCII
\* characters: space, line feed, tab, carriage return, form feed and the
\* vertical tab (U+000B, the last member, written as the character itself)
WhiteChars == {" ", "\n", "\t", "\r", "\f", ""}

AlphaPos(alpha, c) == CHOOSE i \in 1..Len(alpha) : Ch(alpha, i) = c

toLowerCaseCh(c) == IF c \in UpperChars THEN Ch(LowerAlpha, AlphaPos(UpperAlpha, c)) ELSE c

toUpperCaseCh(c) == IF c \in LowerChars THEN Ch(UpperAlpha, AlphaPos(LowerAlpha, c)) ELSE c

\* the least element of a non-empty set of integers
MinOf(S) == CHOOSE x \in S : \A y \in S : x <= y

\* the greatest element of a non-empty set of integers
MaxOf(S) == CHOOSE x \in S : \A y \in S : x >= y

\* parts[a] + ... + parts[b], halving the range so that the evaluation depth
\* stays logarithmic in the number of parts
RECURSIVE ConcatRange(_, _, _)
ConcatRange(parts, a, b) ==
  IF a > b THEN ""
  ELSE IF a = b THEN parts[a]
  ELSE LET m == (a + b) \div 2
       IN  ConcatRange(parts, a, m) \o ConcatRange(parts, m + 1, b)

ConcatAll(parts) == ConcatRange(parts, 1, Len(parts))

toLowerCase(s) == ConcatAll([i \in 1..Len(s) |-> toLowerCaseCh(Ch(s, i))])

\* s.slice(n) with a 0-based n
slice(s, n) == SubSeq(s, n + 1, Len(s))

\* does lit occur in s at the 1-based position i
StartsAt(s, i, lit) ==
  /\ i >= 1
  /\ i + Len(lit) - 1 <= Len(s)
  /\ lit = "" \/ Ch(s, i) = Ch(lit, 1)
  /\ SubSeq(s, i, i + Len(lit) - 1) = lit

startsWith(s, lit) == StartsAt(s, 1, lit)

\* first position >= from where lit occurs in s, 0 when there is none
IndexOf(s, lit, from) ==
  LET last == Len(s) - Len(lit) + 1
  IN  IF \E i \in from..last : StartsAt(s, i, lit)
      THEN CHOOSE i \in from..last :
             StartsAt(s, i, lit) /\ \A k \in from..(i - 1) : ~StartsAt(s, k, lit)
      ELSE 0

includesStr(s, lit) == IndexOf(s, lit, 1) # 0

\* first position >= i whose character is outside cls (Len(s) + 1 when none)
SkipClass(s, i, cls) ==
  IF i > Len(s) THEN i
  ELSE CHOOSE j \in i..(Len(s) + 1) :
         /\ j = Len(s) + 1 \/ Ch(s, j) \notin cls
         /\ \A k \in i..(j - 1) : Ch(s, k) \in cls

\* first position >= i whose character is in cls (Len(s) + 1 when none)
FindClass(s, i, cls) ==
  IF i > Len(s) THEN i
  ELSE CHOOSE j \in i..(Len(s) + 1) :
         /\ j = Len(s) + 1 \/ Ch(s, j) \in cls
         /\ \A k \in i..(j - 1) : Ch(s, k) \notin cls

\* last position <= i whose character is outside cls (0 when none)
SkipClassBack(s, i, cls) ==
  i - (CHOOSE t \in 0..i :
         /\ \A k \in 1..t : Ch(s, i - k + 1) \in cls
         /\ t = i \/ Ch(s, i - t) \notin cls)

trim(s) ==
  LET b == SkipClass(s, 1, WhiteChars)
      e == SkipClassBack(s, Len(s), WhiteChars)
  IN  IF b > e THEN "" ELSE SubSeq(s, b, e)

\* number of occurrences of the one-character string c in s
CountCh(s, c) == Cardinality({i \in 1..Len(s) : Ch(s, i) = c})

\* parts.join(sep)
join(parts, sep) ==
  ConcatAll([i \in 1..Len(parts) |-> IF i = 1 THEN parts[i] ELSE sep \o parts[i]])

\* Array.from(new Set(xs)): first occurrences, in order
RECURSIVE dedupe(_)
dedupe(xs) ==
  IF Len(xs) = 0 THEN << >>
  ELSE LET init == dedupe(SubSeq(xs, 1, Len(xs) - 1))
           last == xs[Len(xs)]
       IN  IF \E i \in 1..Len(init) : init[i] = last THEN init ELSE Append(init, last)

Range(xs) == {xs[i] : i \in 1..Len(xs)}

(***************************************************************************)
(* Naming                                                                  *)
(***************************************************************************)
\* .replace(/([a-z0-9])([A-Z])/g, "$1-$2")
kebabLowerUpper(s) ==
  ConcatAll([i \in 1..Len(s) |->
    IF /\ i < Len(s)
       /\ Ch(s, i) \in LowerChars \cup DigitChars
       /\ Ch(s, i + 1) \in UpperChars
    THEN Ch(s, i) \o "-"
    ELSE Ch(s, i)])

\* .replace(/([A-Z])([A-Z][a-z])/g, "$1-$2")
kebabUpperRun(s) ==
  ConcatAll([i \in 1..Len(s) |->
    IF /\ i + 2 <= Len(s)
       /\ Ch(s, i) \in UpperChars
       /\ Ch(s, i + 1) \in UpperChars
       /\ Ch(s, i + 2) \in LowerChars
    THEN Ch(s, i) \o "-"
    ELSE Ch(s, i)])

toKebabCase(str) == toLowerCase(kebabUpperRun(kebabLowerUpper(str)))

\* name.charAt(0).toLowerCase() + name.slice(1)
lowerFirst(name) == toLowerCaseCh(Ch(name, 1)) \o slice(name, 1)

\* f.charAt(0).toUpperCase() + f.slice(1)
upperFirst(name) == toUpperCaseCh(Ch(name, 1)) \o slice(name, 1)

fragmentName(typeName) == lowerFirst(typeName) \o "Fragment"

(***************************************************************************)
(* Type references and schema access (graphql-js objects)                  *)
(***************************************************************************)
Named(n) == [kind |-> "Named", name |-> n]
NonNull(t) == [kind |-> "NonNull", ofType |-> t]
ListOf(t) == [kind |-> "List", ofType |-> t]

isNonNullType(type) == type.kind = "NonNull"
isListType(type) == type.kind = "List"

RECURSIVE unwrapTypeName(_)
unwrapTypeName(type) ==
  IF type.kind = "Named" THEN type.name ELSE unwrapTypeName(type.ofType)

\* formatTypeString with a fault: the mark of a non-null layer is put in
\* front of what the layer wraps
RECURSIVE formatTypeStringMarkFirst(_)
formatTypeStringMarkFirst(type) ==
  IF isNonNullType(type) THEN "!" \o formatTypeStringMarkFirst(type.ofType)
  ELSE IF isListType(type) THEN "[" \o formatTypeStringMarkFirst(type.ofType) \o "]"
  ELSE type.name

RECURSIVE formatTypeString(_)
formatTypeString(type) ==
  IF isNonNullType(type) THEN formatTypeString(type.ofType) \o "!"
  ELSE IF isListType(type) THEN "[" \o formatTypeString(type.ofType) \o "]"
  ELSE type.name

\* the scalars every graphql-js schema knows; they have no astNode
BuiltinScalars == {"Boolean", "Int", "Float", "ID", "String"}

\* schema.getType(name) of an absent name
NoType == [name |-> "", astKind |-> "undefined", fields |-> << >>,
           interfaces |-> << >>, possibleTypes |-> << >>]

BuiltinScalarType(n) == [name |-> n, astKind |-> "BuiltinScalar", fields |-> << >>,
                         interfaces |-> << >>, possibleTypes |-> << >>]

getType(schema, name) ==
  IF \E i \in 1..Len(schema.types) : schema.types[i].name = name
  THEN schema.types[CHOOSE i \in 1..Len(schema.types) : schema.types[i].name = name]
  ELSE IF name \in BuiltinScalars THEN BuiltinScalarType(name)
  ELSE NoType

\* type.getFields is defined: object, interface and input object types
hasGetFields(type) ==
  type.astKind \in {"ObjectTypeDefinition", "InterfaceTypeDefinition",
                    "InputObjectTypeDefinition"}

isScalarType(type) == type.astKind \in {"ScalarTypeDefinition", "BuiltinScalar"}

\* the members a plain object ({}) inherits from Object.prototype: obj[key]
\* is one of them, a function or the prototype itself, when key is one of
\* these names and obj has no entry of its own for it
ObjectPrototypeNames ==
  {"constructor", "toString", "toLocaleString", "valueOf", "hasOwnProperty",
   "isPrototypeOf", "propertyIsEnumerable", "__proto__", "__defineGetter__",
   "__defineSetter__", "__lookupGetter__", "__lookupSetter__"}

\* obj[key] is an inherited member; keys are the keys obj has of its own
inheritedMember(keys, key) == key \notin keys /\ key \in ObjectPrototypeNames

(***************************************************************************)
(* Operation builder                                                       *)
(***************************************************************************)
RECURSIVE argVars(_, _)
argVars(args, inputs) ==
  IF Len(args) = 0 THEN << >>
  ELSE LET arg == args[1]
           argTypeName == unwrapTypeName(arg.type)
           rest == argVars(Tail(args), inputs)
       IN  IF argTypeName = "ConnectionCursor" THEN rest
           ELSE IF argTypeName \in inputs /\ toLowerCase(arg.name) = "input"
                THEN <<"$" \o arg.name \o ": " \o formatTypeString(arg.type)>> \o rest
                ELSE <<"$" \o arg.name \o ": " \o formatTypeString(arg.type)>> \o rest

RECURSIVE argAssignments(_, _)
argAssignments(args, inputs) ==
  IF Len(args) = 0 THEN << >>
  ELSE LET arg == args[1]
           argTypeName == unwrapTypeName(arg.type)
           rest == argAssignments(Tail(args), inputs)
       IN  IF argTypeName = "ConnectionCursor" THEN rest
           ELSE <<arg.name \o ": $" \o arg.name>> \o rest

generateArgsString(args, inputs) ==
  LET strings(varDefs, assignments) ==
        IF Len(args) = 0 \/ Len(varDefs) = 0 THEN [vars |-> "", args |-> ""]
        ELSE [vars |-> "(" \o join(varDefs, ", ") \o ")",
              args |-> "(" \o join(assignments, ", ") \o ")"]
  IN  strings(argVars(args, inputs), argAssignments(args, inputs))

generateOperation(schema, opType, opName, fieldName, field, returnTypeName, inputs) ==
  LET simpleReturn(innerType) == \/ isScalarType(innerType)
                                 \/ innerType.astKind = "EnumTypeDefinition"
                                 \/ innerType.name \in BuiltinScalars
      operation(va) ==
        IF simpleReturn(getType(schema, unwrapTypeName(field.type)))
        THEN opType \o " " \o opName \o va.vars \o " {\n  " \o fieldName \o va.args \o "\n}"
        ELSE opType \o " " \o opName \o va.vars \o " {\n  " \o fieldName \o va.args
               \o " {\n    ..." \o fragmentName(returnTypeName) \o "\n  }\n}"
  IN  operation(generateArgsString(field.args, inputs))

(***************************************************************************)
(* Document merger                                                         *)
(***************************************************************************)
NoMatch == [ok |-> FALSE]

\* (query|mutation|subscription) at position p, "" when none
KeywordAt(s, p) ==
  IF Ch(s, p) \notin {"q", "m", "s"} THEN ""
  ELSE IF StartsAt(s, p, "query") THEN "query"
  ELSE IF StartsAt(s, p, "mutation") THEN "mutation"
  ELSE IF StartsAt(s, p, "subscription") THEN "subscription"
  ELSE ""

\* (\([^\)]*\)) at position i: the position of its ")", 0 when it does not match
ParenGroupEnd(s, i) ==
  IF i <= Len(s) /\ Ch(s, i) = "(" THEN IndexOf(s, ")", i + 1) ELSE 0

\* (query|mutation|subscription)\s+([A-Za-z0-9_]+)\s*(\([^\)]*\))?\s*\{  at p
OpHeaderAt(s, p) ==
  LET \* kw: the keyword, b..c-1: the name, d: after the white space, pe: the
      \* ")" of the variables, e: after the white space behind them
      header(kw, b, c, d, pe, e) ==
        IF kw = "" \/ b = p + Len(kw) \/ c = b THEN NoMatch
        ELSE IF pe # 0 /\ e <= Len(s) /\ Ch(s, e) = "{"
             THEN [ok |-> TRUE, type |-> kw, name |-> SubSeq(s, b, c - 1),
                   vars |-> SubSeq(s, d, pe), brace |-> e]
        ELSE IF d <= Len(s) /\ Ch(s, d) = "{"
             THEN [ok |-> TRUE, type |-> kw, name |-> SubSeq(s, b, c - 1),
                   vars |-> "", brace |-> d]
        ELSE NoMatch
      afterVars(kw, b, c, d, pe) ==
        header(kw, b, c, d, pe, SkipClass(s, pe + 1, WhiteChars))
      afterGap(kw, b, c, d) == afterVars(kw, b, c, d, ParenGroupEnd(s, d))
      afterName(kw, b, c) == afterGap(kw, b, c, SkipClass(s, c, WhiteChars))
      afterSpace(kw, b) == afterName(kw, b, SkipClass(s, b, WordChars))
      afterKeyword(kw) == afterSpace(kw, SkipClass(s, p + Len(kw), WhiteChars))
  IN  afterKeyword(KeywordAt(s, p))

\* opRegex of mergeOperation at p: the header, the lazy body, then "\n}"
OpRegexAt(s, p) ==
  LET \* h: the header, j: the position of the "\n}" that ends the block
      block(h, j) ==
        IF j = 0 THEN NoMatch
        ELSE [ok |-> TRUE, start |-> p, end |-> j + 1, full |-> SubSeq(s, p, j + 1),
              type |-> h.type, name |-> h.name, vars |-> h.vars,
              body |-> SubSeq(s, h.brace + 1, j - 1)]
      afterHeader(h) == block(h, IF h.ok THEN IndexOf(s, "\n}", h.brace + 1) ELSE 0)
  IN  afterHeader(OpHeaderAt(s, p))

\* the first position >= from where one of the three keywords starts, 0 if none
nextKeyword(s, from) ==
  IF \E p \in from..Len(s) : KeywordAt(s, p) # ""
  THEN CHOOSE p \in from..Len(s) :
         KeywordAt(s, p) # "" /\ \A q \in from..(p - 1) : KeywordAt(s, q) = ""
  ELSE 0

\* opRegex.exec with lastIndex = from - 1: the leftmost match at or after from
RECURSIVE opRegexExec(_, _)
opRegexExec(s, from) ==
  LET \* p: the next candidate position, m: the match tried there
      attempt(p, m) == IF p = 0 THEN NoMatch
                       ELSE IF m.ok THEN m
                       ELSE opRegexExec(s, p + 1)
      candidate(p) == attempt(p, OpRegexAt(s, p))
  IN  candidate(nextKeyword(s, from))

\* body.match(/([a-zA-Z0-9_]+)\s*(\([^\)]*\))?/): [1] the first word, [2] its
\* parenthesised argument list ("" when the group does not take part)
rootMatchOf(body) ==
  LET \* b..c-1: the word, d: after the white space, pe: the ")" of the group
      rootMatch(b, c, d, pe) ==
        IF b > Len(body) THEN [ok |-> FALSE, rootField |-> "", callArgs |-> ""]
        ELSE [ok |-> TRUE, rootField |-> SubSeq(body, b, c - 1),
              callArgs |-> IF pe # 0 THEN SubSeq(body, d, pe) ELSE ""]
      afterGap(b, c, d) == rootMatch(b, c, d, ParenGroupEnd(body, d))
      afterWord(b, c) == afterGap(b, c, SkipClass(body, c, WhiteChars))
      wordAt(b) == afterWord(b, SkipClass(body, b, WordChars))
  IN  wordAt(FindClass(body, 1, WordChars))

\* newOpStr.match(/\(([^)]*)\)/): "(" + [1] + ")", "" when there is no match
newVarsOf(newOpStr) ==
  LET \* o: the first "(", c: the first ")" after it
      varsStr(o, c) == IF c = 0 THEN "" ELSE "(" \o SubSeq(newOpStr, o + 1, c - 1) \o ")"
      opened(o) == varsStr(o, IF o = 0 THEN 0 ELSE IndexOf(newOpStr, ")", o + 1))
  IN  opened(IndexOf(newOpStr, "(", 1))

\* /\.\.\.[A-Za-z0-9_]+/ at position p
SpreadAt(s, p) == StartsAt(s, p, "...") /\ p + 3 <= Len(s) /\ Ch(s, p + 3) \in WordChars

\* /\{\s*\.\.\.[A-Za-z0-9_]+/.test(s), scanning from position p
RECURSIVE hasFragmentsFrom(_, _)
hasFragmentsFrom(s, p) ==
  LET braceAt(b) == IF b = 0 THEN FALSE
                    ELSE IF SpreadAt(s, SkipClass(s, b + 1, WhiteChars)) THEN TRUE
                    ELSE hasFragmentsFrom(s, b + 1)
  IN  braceAt(IndexOf(s, "{", p))

\* s.match(/\.\.\.[A-Za-z0-9_]+/g) || [], scanning from position p
RECURSIVE spreadTokens(_, _)
spreadTokens(s, p) ==
  LET \* i: the first spread at or after p, e: the position after its name
      token(i, e) == <<SubSeq(s, i, e - 1)>> \o spreadTokens(s, e)
      spreadAt(i) == token(i, SkipClass(s, i + 3, WordChars))
      firstOf(starts) == IF starts = {} THEN << >> ELSE spreadAt(MinOf(starts))
  IN  firstOf({i \in p..Len(s) : SpreadAt(s, i)})

\* GetSubstitution for a string pattern: in the replacement "$$" stands for
\* "$", "$&" for the matched text, "$" and a grave accent for the text
\* before the match and "$" and an apostrophe for the text after it; there
\* are no captures, so every other "$" stands for itself.  From position
\* from of replacement on.
RECURSIVE getSubstitution(_, _, _, _, _)
getSubstitution(replacement, matched, before, after, from) ==
  LET \* the grave accent and the apostrophe
      Grave == SubSeq("`'", 1, 1)
      Apostrophe == SubSeq("`'", 2, 2)
      expand(i, sign) ==
        IF i = 0 THEN SubSeq(replacement, from, Len(replacement))
        ELSE SubSeq(replacement, from, i - 1)
               \o (CASE sign = "$" -> "$"
                      [] sign = "&" -> matched
                      [] sign = Grave -> before
                      [] sign = Apostrophe -> after
                      [] OTHER -> "$")
               \o getSubstitution(replacement, matched, before, after,
                                  IF sign \in {"$", "&", Grave, Apostrophe}
                                  THEN i + 2 ELSE i + 1)
      dollarAt(i) == expand(i, IF i = 0 \/ i = Len(replacement) THEN ""
                               ELSE Ch(replacement, i + 1))
  IN  dollarAt(IndexOf(replacement, "$", from))

\* content.replace(full, replacement) with a string pattern: the first
\* occurrence only, the replacement patterns expanded
replaceFirst(content, full, replacement) ==
  LET paste(head, tail) ==
        head \o getSubstitution(replacement, full, head, tail, 1) \o tail
      replaceAt(i) == IF i = 0 THEN content
                      ELSE paste(SubSeq(content, 1, i - 1),
                                 SubSeq(content, i + Len(full), Len(content)))
  IN  replaceAt(IndexOf(content, full, 1))

\* mergedBlock with a fault: the spreads of the existing body are not
\* carried over, the block selects the new spreads only
mergedBlockNewOnly(m, newOpStr, fieldName) ==
  LET newFrags == spreadTokens(newOpStr, 1)
      merged == dedupe(newFrags)
      block(rootMatch, varsStr, hasFragments) ==
        IF ~hasFragments
        THEN m.type \o " " \o m.name \o varsStr \o " {\n  " \o fieldName
               \o rootMatch.callArgs \o "\n}"
        ELSE m.type \o " " \o m.name \o varsStr \o " {\n"
               \o "  " \o fieldName \o rootMatch.callArgs \o " {\n    "
               \o join(merged, "\n    ") \o "\n  }" \o "\n}"
  IN  block(rootMatchOf(m.body), newVarsOf(newOpStr), hasFragmentsFrom(newOpStr, 1))

\* the block mergeOperation writes in place of the matched block m
mergedBlock(m, newOpStr, fieldName) ==
  LET newFrags == spreadTokens(newOpStr, 1)
      existingFrags == spreadTokens(m.body, 1)
      merged == dedupe(existingFrags \o newFrags)
      block(rootMatch, varsStr, hasFragments) ==
        IF ~hasFragments
        THEN m.type \o " " \o m.name \o varsStr \o " {\n  " \o fieldName
               \o rootMatch.callArgs \o "\n}"
        ELSE m.type \o " " \o m.name \o varsStr \o " {\n"
               \o "  " \o fieldName \o rootMatch.callArgs \o " {\n    "
               \o join(merged, "\n    ") \o "\n  }" \o "\n}"
  IN  block(rootMatchOf(m.body), newVarsOf(newOpStr), hasFragmentsFrom(newOpStr, 1))

\* findExisting with a fault: the loop ends after the first match of
\* opRegex, whatever its root field is
findExistingFirstOnly(existingContent, fieldName, from) ==
  LET compare(m, rootMatch) ==
        IF rootMatch.ok /\ rootMatch.rootField = fieldName THEN m ELSE NoMatch
      matched(m) == IF ~m.ok THEN NoMatch ELSE compare(m, rootMatchOf(m.body))
  IN  matched(opRegexExec(existingContent, from))

\* the loop of mergeOperation from lastIndex = from - 1: the first block whose
\* root field is fieldName, NoMatch when the matches run out
RECURSIVE findExisting(_, _, _)
findExisting(existingContent, fieldName, from) ==
  LET \* m: the next match of opRegex, rootMatch: the match of its body
      compare(m, rootMatch) ==
        IF rootMatch.ok /\ rootMatch.rootField = fieldName THEN m
        ELSE findExisting(existingContent, fieldName, m.end + 1)
      matched(m) == IF ~m.ok THEN NoMatch ELSE compare(m, rootMatchOf(m.body))
  IN  matched(opRegexExec(existingContent, from))

\* mergeOperation with a fault: the search for an existing block is left
\* out, the new operation is always appended
mergeOperationAppend(existingContent, newOpStr, fieldName) ==
  trim(existingContent) \o "\n\n" \o newOpStr \o "\n"

\* mergeOperation with a fault: the rewritten block becomes the whole
\* content instead of replacing the matched block within it
mergeOperationOverwrite(existingContent, newOpStr, fieldName) ==
  LET mergeWith(m) == IF m.ok THEN mergedBlock(m, newOpStr, fieldName)
                      ELSE trim(existingContent) \o "\n\n" \o newOpStr \o "\n"
  IN  mergeWith(findExisting(existingContent, fieldName, 1))

\* mergeOperation with a fault: the appended operation follows the existing
\* content on the next line, without the blank line between them
mergeOperationNoGap(existingContent, newOpStr, fieldName) ==
  LET mergeWith(m) ==
        IF m.ok
        THEN replaceFirst(existingContent, m.full, mergedBlock(m, newOpStr, fieldName))
        ELSE trim(existingContent) \o "\n" \o newOpStr \o "\n"
  IN  mergeWith(findExisting(existingContent, fieldName, 1))

mergeOperation(existingContent, newOpStr, fieldName) ==
  LET \* m: the existing block for fieldName, if there is one
      mergeWith(m) ==
        IF m.ok
        THEN replaceFirst(existingContent, m.full, mergedBlock(m, newOpStr, fieldName))
        ELSE trim(existingContent) \o "\n\n" \o newOpStr \o "\n"
  IN  mergeWith(findExisting(existingContent, fieldName, 1))

(***************************************************************************)
(* Fragment builder                                                        *)
(***************************************************************************)
\* recursion ceiling of generateFragmentFields
MaxDepth == 5

\* /Filter|Edge|Connection|PageInfo|Sort/.test(name)
matchesNestedSkip(name) ==
  \/ includesStr(name, "Filter")
  \/ includesStr(name, "Edge")
  \/ includesStr(name, "Connection")
  \/ includesStr(name, "PageInfo")
  \/ includesStr(name, "Sort")

\* type.getInterfaces(): the interfaces an object or interface type declares
getInterfaces(schema, type) ==
  [i \in 1..Len(type.interfaces) |-> getType(schema, type.interfaces[i])]

\* schema.getPossibleTypes(type): the members of a union, the implementers
\* of an interface in type map order
getPossibleTypes(schema, type) ==
  IF type.astKind = "UnionTypeDefinition" THEN type.possibleTypes
  ELSE LET impl(t) == /\ t.astKind = "ObjectTypeDefinition"
                      /\ type.name \in Range(t.interfaces)
           ts == SelectSeq(schema.types, impl)
       IN  [i \in 1..Len(ts) |-> ts[i].name]

\* names of the fields of the interfaces of type
ifaceFieldNamesOf(schema, type) ==
  UNION {{f.name : f \in Range(iface.fields)} : iface \in Range(getInterfaces(schema, type))}

\* the spreads pushed for the implemented interfaces
ifaceSpreads(schema, type) ==
  LET named == SelectSeq(type.interfaces, LAMBDA n : n # "")
  IN  [i \in 1..Len(named) |-> "..." \o lowerFirst(named[i]) \o "Fragment"]

\* the selection pushed for a field of interface or union type
inlineFragmentsField(schema, fieldName, nestedType) ==
  LET possibleTypes == getPossibleTypes(schema, nestedType)
      inlineFragments ==
        join([i \in 1..Len(possibleTypes) |->
                "... on " \o possibleTypes[i] \o " { ..."
                  \o lowerFirst(possibleTypes[i]) \o "Fragment }"], "\n    ")
  IN  fieldName \o " {\n    " \o inlineFragments \o "\n  }"

RECURSIVE generateFragmentFieldsRec(_, _, _, _)
RECURSIVE fragmentFieldLoop(_, _, _, _, _)

\* the loop over the fields of type from index i on; seen is the one Set
\* object shared by the whole build of a fragment, so the loop returns it
fragmentFieldLoop(type, schema, depth, seen, i) ==
  IF i > Len(type.fields) THEN [result |-> << >>, seen |-> seen]
  ELSE
    LET field == type.fields[i]
        fieldName == field.name
        fieldTypeName == unwrapTypeName(field.type)
        nestedType == getType(schema, fieldTypeName)
        skip == fragmentFieldLoop(type, schema, depth, seen, i + 1)
        push(str) == [result |-> <<str>> \o skip.result, seen |-> skip.seen]
    IN  IF fieldTypeName \in seen THEN skip
        ELSE IF fieldName \in ifaceFieldNamesOf(schema, type) THEN skip
        ELSE IF fieldTypeName = "ConnectionCursor" THEN skip
        ELSE IF nestedType.astKind \in {"InterfaceTypeDefinition", "UnionTypeDefinition"}
             THEN push(inlineFragmentsField(schema, fieldName, nestedType))
        ELSE IF /\ hasGetFields(nestedType)
                /\ ~isScalarType(nestedType)
                /\ ~matchesNestedSkip(fieldTypeName)
             THEN push(fieldName \o " {\n    ..." \o fragmentName(fieldTypeName) \o "\n  }")
        ELSE IF hasGetFields(nestedType) /\ ~isScalarType(nestedType)
             THEN LET sub == generateFragmentFieldsRec(nestedType, schema, depth + 1,
                                                       seen \cup {fieldTypeName})
                      body == IF Len(sub.result) # 0
                              THEN "{\n    " \o join(sub.result, "\n    ") \o "\n  }"
                              ELSE ""
                      rest == fragmentFieldLoop(type, schema, depth, sub.seen, i + 1)
                  IN  [result |-> <<fieldName \o " " \o body>> \o rest.result,
                       seen |-> rest.seen]
        ELSE push(fieldName)

\* generateFragmentFields with a fault: the depth is not tested
generateFragmentFieldsNoCeiling(type, schema, depth, seen) ==
  IF ~hasGetFields(type) THEN [result |-> << >>, seen |-> seen]
  ELSE LET withSpreads(loop) ==
             [result |-> ifaceSpreads(schema, type) \o loop.result, seen |-> loop.seen]
       IN  withSpreads(fragmentFieldLoop(type, schema, depth, seen, 1))

generateFragmentFieldsRec(type, schema, depth, seen) ==
  IF ~hasGetFields(type) THEN [result |-> << >>, seen |-> seen]
  ELSE IF depth > MaxDepth THEN [result |-> << >>, seen |-> seen]
  ELSE LET withSpreads(loop) ==
             [result |-> ifaceSpreads(schema, type) \o loop.result, seen |-> loop.seen]
       IN  withSpreads(fragmentFieldLoop(type, schema, depth, seen, 1))

generateFragmentFields(type, schema) == generateFragmentFieldsRec(type, schema, 0, {}).result

generateFragment(typeName, schema) ==
  LET text(fields) ==
        IF Len(fields) = 0 THEN ""
        ELSE "fragment " \o fragmentName(typeName) \o " on " \o typeName \o " {\n  "
               \o join(fields, "\n  ") \o "\n}"
      fragmentFor(type) ==
        IF ~hasGetFields(type) THEN "" ELSE text(generateFragmentFields(type, schema))
  IN  fragmentFor(getType(schema, typeName))

(***************************************************************************)
(* Scalar fallback selector                                                *)
(***************************************************************************)
\* nullable.slice(0, 3)
NullableLimit == 3

\* /id|name|title|email|type/i.test(name)
matchesKeyName(name) ==
  LET n == toLowerCase(name)
  IN  \/ includesStr(n, "id")
      \/ includesStr(n, "name")
      \/ includesStr(n, "title")
      \/ includesStr(n, "email")
      \/ includesStr(n, "type")

\* fieldNonNull with a fault: only the field type itself is looked at
fieldNonNullStrict(type) == isNonNullType(type)

\* isNonNullType(f.type) || (f.type.ofType && isNonNullType(f.type.ofType))
fieldNonNull(type) ==
  \/ isNonNullType(type)
  \/ (type.kind # "Named" /\ isNonNullType(type.ofType))

\* twice the score of the source (2, 1 and 0.5 become 4, 2 and 1)
score2(f) ==
  (IF f.nonNull THEN 4 ELSE 0)
    + (IF matchesKeyName(f.name) THEN 2 ELSE 0)
    + (IF Len(f.name) <= 5 THEN 1 ELSE 0)

\* scalarFields.sort((a, b) => score(b) - score(a)): Array.prototype.sort is
\* stable, so the fields come out by descending score, equal scores in their
\* original order; level runs from the highest doubled score down to 0, and
\* every entry of fs carries its doubled score
RECURSIVE sortByScore(_, _)
sortByScore(fs, level) ==
  IF level < 0 THEN << >>
  ELSE SelectSeq(fs, LAMBDA f : f.score = level) \o sortByScore(fs, level - 1)

getMinimalScalarFields(typeName, schema) ==
  LET names(fs) == [i \in 1..Len(fs) |-> fs[i].name]
      result(selected) == IF Len(selected) # 0 THEN selected ELSE <<"id">>
      \* nonNull and nullable: the names of the two groups, in sorted order
      select(nonNull, nullable) ==
        result(nonNull \o SubSeq(nullable, 1, IF Len(nullable) < NullableLimit
                                              THEN Len(nullable) ELSE NullableLimit))
      split(sorted) == select(names(SelectSeq(sorted, LAMBDA f : f.nonNull)),
                              names(SelectSeq(sorted, LAMBDA f : ~f.nonNull)))
      \* every entry carries its doubled score, computed once
      sort(scalarFields) ==
        split(sortByScore([i \in 1..Len(scalarFields) |->
                             [name |-> scalarFields[i].name,
                              nonNull |-> scalarFields[i].nonNull,
                              score |-> score2(scalarFields[i])]], 7))
      describe(scalars) ==
        sort([i \in 1..Len(scalars) |->
                [name |-> scalars[i].name, nonNull |-> fieldNonNull(scalars[i].type)]])
      fieldsOf(t) ==
        IF ~hasGetFields(t) THEN <<"id">>
        ELSE describe(SelectSeq(t.fields,
               LAMBDA f : isScalarType(getType(schema, unwrapTypeName(f.type)))))
  IN  fieldsOf(getType(schema, typeName))

(***************************************************************************)
(* Existing-operation index                                                *)
(***************************************************************************)
\* regex of mapExistingOperations at p: the header, then \s*([A-Za-z0-9_]+)
MapRegexAt(s, p) ==
  LET \* h: the header, b..c-1: the first word behind its brace
      entry(h, b, c) ==
        IF ~h.ok \/ c = b THEN NoMatch
        ELSE [ok |-> TRUE, end |-> c - 1, opName |-> h.name,
              fieldName |-> SubSeq(s, b, c - 1)]
      wordAt(h, b) == entry(h, b, IF h.ok THEN SkipClass(s, b, WordChars) ELSE 0)
      afterHeader(h) ==
        wordAt(h, IF h.ok THEN SkipClass(s, h.brace + 1, WhiteChars) ELSE 0)
  IN  afterHeader(OpHeaderAt(s, p))

\* every match of that regex in content from position from on, in order
RECURSIVE mapRegexMatches(_, _)
mapRegexMatches(content, from) ==
  LET \* p: the next candidate position, m: the match tried there
      attempt(p, m) == IF p = 0 THEN << >>
                       ELSE IF m.ok THEN <<m>> \o mapRegexMatches(content, m.end + 1)
                       ELSE mapRegexMatches(content, p + 1)
      candidate(p) == attempt(p, MapRegexAt(content, p))
  IN  candidate(nextKeyword(content, from))

EmptyMap == [x \in {} |-> ""]

\* const opMap = {}: own holds the keys the object has of its own, proto is
\* empty while its prototype is Object.prototype and holds the object an
\* assignment to opMap["__proto__"] has put in its place
EmptyIndex == [own |-> EmptyMap, proto |-> << >>]

\* opMap[fieldName] = { opName, file } for every match of one file; for the
\* field name __proto__ the assignment replaces the prototype of opMap and
\* adds no key
RECURSIVE indexFile(_, _, _, _)
indexFile(opMap, file, matches, i) ==
  IF i > Len(matches) THEN opMap
  ELSE LET assign(fieldName, entry) ==
             IF fieldName = "__proto__" THEN [opMap EXCEPT !.proto = <<entry>>]
             ELSE [opMap EXCEPT !.own = (fieldName :> entry) @@ @]
       IN  indexFile(assign(matches[i].fieldName,
                            [opName |-> matches[i].opName, file |-> file]),
                     file, matches, i + 1)

\* the matches of the regex in every .gql file of docs
scanFiles(docs) ==
  {[file |-> f, matches |-> mapRegexMatches(docs[f], 1)] :
     f \in {g \in DOMAIN docs : \* g.endsWith(".gql")
                                Len(g) >= 4 /\ StartsAt(g, Len(g) - 3, ".gql")}}

\* the loop over the files, in the order readdirSync lists them; scanned
\* holds the matches of each .gql file
RECURSIVE indexFiles(_, _, _, _)
indexFiles(opMap, scanned, order, i) ==
  IF i > Len(order) THEN opMap
  ELSE indexFiles(
         IF \E r \in scanned : r.file = order[i]
         THEN indexFile(opMap, order[i],
                        (CHOOSE r \in scanned : r.file = order[i]).matches, 1)
         ELSE opMap,
         scanned, order, i + 1)

\* docs: the files of documentsDir; order: the listing readdirSync returns
mapExistingOperations(docs, order) == indexFiles(EmptyIndex, scanFiles(docs), order, 1)

\* readdirSync returns the entries in directory order, which the file
\* system chooses: every ordering of the files is possible
Listings(files) ==
  {order \in [1..Cardinality(files) -> files] :
     \A i, j \in 1..Cardinality(files) : i # j => order[i] # order[j]}

(***************************************************************************)
(* Orchestrator: operations                                                *)
(***************************************************************************)
\* /Filter|Edge|Connection|PageInfo|OffsetPageInfo|Sort/.test(name)
skipPattern(name) ==
  \/ includesStr(name, "Filter")
  \/ includesStr(name, "Edge")
  \/ includesStr(name, "Connection")
  \/ includesStr(name, "PageInfo")
  \/ includesStr(name, "OffsetPageInfo")
  \/ includesStr(name, "Sort")

\* /^(createOne|updateOne|deleteOne|upsertOne|aggregate|findMany|groupBy)/.test(name)
skipCrud(name) ==
  \/ startsWith(name, "createOne")
  \/ startsWith(name, "updateOne")
  \/ startsWith(name, "deleteOne")
  \/ startsWith(name, "upsertOne")
  \/ startsWith(name, "aggregate")
  \/ startsWith(name, "findMany")
  \/ startsWith(name, "groupBy")

\* rootOperations with a fault: the raw mode flag is not consulted, CRUD
\* fields are always skipped
rootOperationsNoRaw(schema, opType, typeName, rawMode) ==
  LET kept(field) == /\ ~skipPattern(unwrapTypeName(field.type))
                     /\ ~skipCrud(field.name)
      operationsOf(fields) ==
        [i \in 1..Len(fields) |->
           [opType |-> opType, fieldName |-> fields[i].name, field |-> fields[i],
            returnTypeName |-> unwrapTypeName(fields[i].type)]]
  IN  operationsOf(IF typeName = "" THEN << >>
                   ELSE SelectSeq(getType(schema, typeName).fields, kept))

\* the root fields of one root type that pass the filters (typeName "" or
\* absent: the schema has no such root type)
rootOperations(schema, opType, typeName, rawMode) ==
  LET kept(field) == /\ ~skipPattern(unwrapTypeName(field.type))
                     /\ (rawMode \/ ~skipCrud(field.name))
      operationsOf(fields) ==
        [i \in 1..Len(fields) |->
           [opType |-> opType, fieldName |-> fields[i].name, field |-> fields[i],
            returnTypeName |-> unwrapTypeName(fields[i].type)]]
  IN  operationsOf(IF typeName = "" THEN << >>
                   ELSE SelectSeq(getType(schema, typeName).fields, kept))

enumerateOperations(schema, rawMode) ==
  rootOperations(schema, "query", schema.query, rawMode)
    \o rootOperations(schema, "mutation", schema.mutation, rawMode)
    \o rootOperations(schema, "subscription", schema.subscription, rawMode)

inputTypes(schema) ==
  {t.name : t \in {u \in Range(schema.types) : u.astKind = "InputObjectTypeDefinition"}}

\* const existing = existingOps[fieldName]: an entry { opName, file } (isEntry),
\* or a truthy value without opName and file: a member inherited from
\* Object.prototype, or, once the prototype has been replaced by an entry,
\* the string that entry holds as opName or file; or undefined (not truthy)
existingOf(existingOps, fieldName) ==
  LET entry(e) == [truthy |-> TRUE, isEntry |-> TRUE, opName |-> e.opName,
                   file |-> e.file]
      other == [truthy |-> TRUE, isEntry |-> FALSE, opName |-> "", file |-> ""]
  IN  IF fieldName \in DOMAIN existingOps.own
      THEN entry(existingOps.own[fieldName])
      ELSE IF fieldName = "__proto__"
      THEN (IF existingOps.proto # << >> THEN entry(existingOps.proto[1]) ELSE other)
      ELSE IF existingOps.proto # << >> /\ fieldName \in {"opName", "file"}
      THEN other
      ELSE IF fieldName \in ObjectPrototypeNames THEN other
      ELSE [truthy |-> FALSE, isEntry |-> FALSE, opName |-> "", file |-> ""]

\* mergeStep with a fault: the index of existing operations is not consulted,
\* every operation goes to the file named after its return type
mergeStepFresh(schema, existingOps, docs, op) ==
  LET fieldName == op.fieldName
      merge(targetFile, newOpStr, existingContent) ==
        [threw |-> FALSE, fieldName |-> fieldName, opType |-> op.opType,
         file |-> targetFile,
         newOpStr |-> newOpStr, before |-> existingContent,
         after |-> trim(mergeOperation(existingContent, newOpStr, fieldName)) \o "\n"]
      target(targetFile) ==
        merge(targetFile,
              generateOperation(schema, op.opType, fieldName, fieldName, op.field,
                                op.returnTypeName, inputTypes(schema)),
              IF targetFile \in DOMAIN docs THEN docs[targetFile] ELSE "")
  IN  target(toKebabCase(op.returnTypeName) \o ".gql")

\* mergeStep with a fault: the merged text is written without being trimmed
mergeStepNoTrim(schema, existingOps, docs, op) ==
  LET fieldName == op.fieldName
      existing == existingOf(existingOps, fieldName)
      opName == IF existing.opName # "" THEN existing.opName ELSE fieldName
      merge(targetFile, newOpStr, existingContent) ==
        [threw |-> FALSE, fieldName |-> fieldName, opType |-> op.opType,
         file |-> targetFile,
         newOpStr |-> newOpStr, before |-> existingContent,
         after |-> mergeOperation(existingContent, newOpStr, fieldName) \o "\n"]
      target(targetFile) ==
        merge(targetFile,
              generateOperation(schema, op.opType, opName, fieldName, op.field,
                                op.returnTypeName, inputTypes(schema)),
              IF targetFile \in DOMAIN docs THEN docs[targetFile] ELSE "")
  IN  IF existing.truthy /\ ~existing.isEntry
      THEN \* existing.file is undefined: path.join(documentsDir, undefined)
           [threw |-> TRUE, fieldName |-> fieldName, opType |-> op.opType,
            file |-> "", newOpStr |-> "", before |-> "", after |-> ""]
      ELSE target(IF existing.isEntry THEN existing.file
                  ELSE toKebabCase(op.returnTypeName) \o ".gql")

\* one iteration of "Generate or update operations" for operations[i]
mergeStep(schema, existingOps, docs, op) ==
  LET fieldName == op.fieldName
      existing == existingOf(existingOps, fieldName)
      opName == IF existing.opName # "" THEN existing.opName ELSE fieldName
      merge(targetFile, newOpStr, existingContent) ==
        [threw |-> FALSE, fieldName |-> fieldName, opType |-> op.opType,
         file |-> targetFile,
         newOpStr |-> newOpStr, before |-> existingContent,
         after |-> trim(mergeOperation(existingContent, newOpStr, fieldName)) \o "\n"]
      target(targetFile) ==
        merge(targetFile,
              generateOperation(schema, op.opType, opName, fieldName, op.field,
                                op.returnTypeName, inputTypes(schema)),
              IF targetFile \in DOMAIN docs THEN docs[targetFile] ELSE "")
  IN  IF existing.truthy /\ ~existing.isEntry
      THEN \* existing.file is undefined: path.join(documentsDir, undefined)
           [threw |-> TRUE, fieldName |-> fieldName, opType |-> op.opType,
            file |-> "", newOpStr |-> "", before |-> "", after |-> ""]
      ELSE target(IF existing.isEntry THEN existing.file
                  ELSE toKebabCase(op.returnTypeName) \o ".gql")

\* mergeLoop with a fault: seenOps is not consulted
RECURSIVE mergeLoopNoSeen(_, _, _, _, _, _, _)
mergeLoopNoSeen(schema, existingOps, operations, i, seenOps, docs, log) ==
  IF i > Len(operations) THEN [docs |-> docs, merges |-> log, threw |-> FALSE]
  ELSE LET continue(step) ==
             IF step.threw THEN [docs |-> docs, merges |-> log, threw |-> TRUE]
             ELSE mergeLoopNoSeen(schema, existingOps, operations, i + 1, seenOps,
                                  (step.file :> step.after) @@ docs, Append(log, step))
       IN  continue(mergeStep(schema, existingOps, docs, operations[i]))

\* the loop over operations: seenOps, the documents directory and the log of
\* the merges done so far are carried from one iteration to the next; threw
\* tells that an iteration threw
RECURSIVE mergeLoop(_, _, _, _, _, _, _)
mergeLoop(schema, existingOps, operations, i, seenOps, docs, log) ==
  IF i > Len(operations) THEN [docs |-> docs, merges |-> log, threw |-> FALSE]
  ELSE IF operations[i].fieldName \in seenOps
       THEN mergeLoop(schema, existingOps, operations, i + 1, seenOps, docs, log)
  ELSE LET \* an exception of the step ends the loop and the run
           continue(step) ==
             IF step.threw THEN [docs |-> docs, merges |-> log, threw |-> TRUE]
             ELSE mergeLoop(schema, existingOps, operations, i + 1,
                            seenOps \cup {operations[i].fieldName},
                            (step.file :> step.after) @@ docs,
                            Append(log, step))
       IN  continue(mergeStep(schema, existingOps, docs, operations[i]))

(***************************************************************************)
(* Orchestrator: fragments and cycle resolution                            *)
(***************************************************************************)
\* fragmentEligible with a fault: the name pattern is not tested
fragmentEligibleNoPattern(schema, type) ==
  ~ \/ ~hasGetFields(type)
    \/ startsWith(type.name, "__")
    \/ type.name \in {schema.query, schema.mutation, schema.subscription}
    \/ type.astKind \in {"InputObjectTypeDefinition", "EnumTypeDefinition",
                         "UnionTypeDefinition"}

\* the types "Generate raw fragments" does not skip, in type map order
fragmentEligible(schema, type) ==
  ~ \/ ~hasGetFields(type)
    \/ startsWith(type.name, "__")
    \/ type.name \in {schema.query, schema.mutation, schema.subscription}
    \/ skipPattern(type.name)
    \/ type.astKind \in {"InputObjectTypeDefinition", "EnumTypeDefinition",
                         "UnionTypeDefinition"}

\* rawFragments as the sequence of its entries, in insertion order
generateRawFragments(schema) ==
  LET entries(eligible) ==
        [i \in 1..Len(eligible) |->
           [typeName |-> eligible[i].name,
            fragment |-> generateFragment(eligible[i].name, schema)]]
  IN  SelectSeq(entries(SelectSeq(schema.types, LAMBDA t : fragmentEligible(schema, t))),
                LAMBDA e : e.fragment # "")

\* /\.\.\.([a-zA-Z0-9_]+)Fragment/ at position p: [1] is the longest prefix
\* of the word after the dots that leaves "Fragment" behind it
DepAt(s, p) ==
  LET \* word: the word after the dots, k: where its last "Fragment" starts
      dep(word, k) ==
        [ok |-> TRUE, dep |-> SubSeq(word, 1, k - 1), end |-> p + 3 + k + 7 - 1]
      cut(word, cuts) ==
        IF ~StartsAt(s, p, "...") \/ cuts = {} THEN NoMatch ELSE dep(word, MaxOf(cuts))
      wordOf(word) == cut(word, {k \in 2..Len(word) : StartsAt(word, k, "Fragment")})
  IN  wordOf(SubSeq(s, p + 3, SkipClass(s, p + 3, WordChars) - 1))

\* [...fragment.matchAll(/\.\.\.([a-zA-Z0-9_]+)Fragment/g)].map(m => m[1])
RECURSIVE fragmentDepsOf(_, _)
fragmentDepsOf(fragment, from) ==
  LET collect(m) == <<m.dep>> \o fragmentDepsOf(fragment, m.end + 1)
      firstOf(starts) ==
        IF starts = {} THEN << >> ELSE collect(DepAt(fragment, MinOf(starts)))
  IN  firstOf({p \in from..Len(fragment) :
                 StartsAt(fragment, p, "...") /\ DepAt(fragment, p).ok})

\* fragmentDeps[typeName] || []: the dependencies, or an inherited member,
\* which is truthy and not an array (it has no includes, no length)
depsOf(fragmentDeps, typeName) ==
  IF typeName \in DOMAIN fragmentDeps THEN fragmentDeps[typeName]
  ELSE IF inheritedMember(DOMAIN fragmentDeps, typeName) THEN [inherited |-> TRUE]
  ELSE << >>

\* rawFragments[typeName] of the entry sequence ("" when absent)
fragmentOf(rawFragments, typeName) ==
  IF \E i \in 1..Len(rawFragments) : rawFragments[i].typeName = typeName
  THEN rawFragments[CHOOSE i \in 1..Len(rawFragments) :
                      rawFragments[i].typeName = typeName].fragment
  ELSE ""

\* "Detect simple cycles (A <-> B)": the pairs pushed for one a
cyclesOfType(fragmentDeps, a) ==
  LET pairs(hits) == [i \in 1..Len(hits) |-> <<a, hits[i]>>]
  IN  pairs(SelectSeq(depsOf(fragmentDeps, a),
                      LAMBDA b : a \in Range(depsOf(fragmentDeps, b))))

RECURSIVE detectCyclesFrom(_, _, _)
detectCyclesFrom(fragmentDeps, keys, i) ==
  IF i > Len(keys) THEN << >>
  ELSE cyclesOfType(fragmentDeps, keys[i]) \o detectCyclesFrom(fragmentDeps, keys, i + 1)

\* keys: Object.entries order of fragmentDeps
detectCycles(fragmentDeps, keys) == detectCyclesFrom(fragmentDeps, keys, 1)

\* text.match(/\b([a-zA-Z0-9_]+)\b/g) || [], as the set of its words
wordTokens(text) ==
  {SubSeq(text, i, SkipClass(text, i, WordChars) - 1) :
     i \in {j \in 1..Len(text) :
              /\ Ch(text, j) \in WordChars
              /\ (j = 1 \/ Ch(text, j - 1) \notin WordChars)}}

\* inlineBodyOf with a fault: no field is given an alias
inlineBodyOfBare(inlineSource, inlineFields, targetFields) ==
  join([i \in 1..Len(inlineFields) |-> "  " \o inlineFields[i]], "\n")

\* inlineBody of the cycle resolution
inlineBodyOf(inlineSource, inlineFields, targetFields) ==
  LET duplicates == {f \in Range(inlineFields) : f \in targetFields}
      line(f) == IF f # "id" /\ f \in duplicates
                 THEN "  " \o lowerFirst(inlineSource) \o upperFirst(f) \o ": " \o f
                 ELSE "  " \o f
  IN  join([i \in 1..Len(inlineFields) |-> line(inlineFields[i])], "\n")

\* new RegExp("\\.\\.\\.\\s*" + name, "g") at position p: the end of the match, 0 if none
SpreadOfAt(s, p, name) ==
  LET j == SkipClass(s, p + 3, WhiteChars)
  IN  IF StartsAt(s, p, "...") /\ StartsAt(s, j, name) THEN j + Len(name) - 1 ELSE 0

\* text.replace(fragPattern, replacement) from position from on; no
\* replacement built here holds a "$"
RECURSIVE replaceSpreads(_, _, _, _)
replaceSpreads(text, name, replacement, from) ==
  LET \* p: the first match at or after from, e: its end
      replaceAt(p, e) == SubSeq(text, from, p - 1) \o replacement
                           \o replaceSpreads(text, name, replacement, e + 1)
      matchAt(p) == replaceAt(p, SpreadOfAt(text, p, name))
      firstOf(starts) ==
        IF starts = {} THEN SubSeq(text, from, Len(text)) ELSE matchAt(MinOf(starts))
  IN  firstOf({p \in from..Len(text) : SpreadOfAt(text, p, name) # 0})

\* the score of one side of a cycle
sizeScore(rawFragments, fragmentDeps, typeName) ==
  LET lines(fragment) == IF fragment = "" THEN 0 ELSE CountCh(fragment, "\n") + 1
  IN  lines(fragmentOf(rawFragments, typeName)) + Len(depsOf(fragmentDeps, typeName))

\* chooseSides with a fault: the side with the larger score is rewritten
chooseSidesLarger(rawFragments, fragmentDeps, a, b) ==
  LET sides(inlineTarget) ==
        [inlineTarget |-> inlineTarget,
         inlineSource |-> IF inlineTarget = a THEN b ELSE a]
      compare(aScore, bScore) == sides(IF aScore > bScore THEN a ELSE b)
  IN  compare(sizeScore(rawFragments, fragmentDeps, a),
              sizeScore(rawFragments, fragmentDeps, b))

\* which side of the pair <<a, b>> is rewritten (inlineTarget) and which
\* side's minimal fields are written into it (inlineSource)
chooseSides(rawFragments, fragmentDeps, a, b) ==
  LET sides(inlineTarget) ==
        [inlineTarget |-> inlineTarget,
         inlineSource |-> IF inlineTarget = a THEN b ELSE a]
      compare(aScore, bScore) == sides(IF aScore < bScore THEN a ELSE b)
  IN  compare(sizeScore(rawFragments, fragmentDeps, a),
              sizeScore(rawFragments, fragmentDeps, b))

\* the body of the loop "Handle cycles by inlining" for one pair not handled yet
resolveCycle(schema, rawFragments, fragmentDeps, a, b) ==
  LET resolved(inlineTarget, inlineSource, inlineFields, targetText, rewritten) ==
        [rawFragments |->
           [i \in 1..Len(rawFragments) |->
              IF rawFragments[i].typeName = inlineTarget
              THEN [typeName |-> inlineTarget, fragment |-> rewritten]
              ELSE rawFragments[i]],
         fragmentDeps |->
           (inlineTarget :> SelectSeq(depsOf(fragmentDeps, inlineTarget),
                                      LAMBDA d : d # inlineSource)) @@ fragmentDeps,
         inlined |-> [target |-> inlineTarget, source |-> inlineSource,
                      fields |-> inlineFields, before |-> targetText, after |-> rewritten]]
      rewrite(inlineTarget, inlineSource, inlineFields, targetText) ==
        resolved(inlineTarget, inlineSource, inlineFields, targetText,
                 replaceSpreads(targetText, fragmentName(inlineSource),
                                inlineBodyOf(inlineSource, inlineFields,
                                             wordTokens(targetText)), 1))
      inline(sides) ==
        rewrite(sides.inlineTarget, sides.inlineSource,
                getMinimalScalarFields(sides.inlineSource, schema),
                fragmentOf(rawFragments, sides.inlineTarget))
  IN  inline(chooseSides(rawFragments, fragmentDeps, a, b))

\* the loop over cycles; handled holds the keys [a, b].sort().join("-"),
\* which identify the unordered pair
RECURSIVE resolveCycles(_, _, _, _, _, _, _)
resolveCycles(schema, rawFragments, fragmentDeps, cycles, i, handled, log) ==
  IF i > Len(cycles) THEN [rawFragments |-> rawFragments, fragmentDeps |-> fragmentDeps,
                           inlines |-> log]
  ELSE LET a == cycles[i][1]
           b == cycles[i][2]
           key == {a, b}
       IN  IF key \in handled
           THEN resolveCycles(schema, rawFragments, fragmentDeps, cycles, i + 1, handled, log)
           ELSE LET continue(r) ==
                      resolveCycles(schema, r.rawFragments, r.fragmentDeps, cycles, i + 1,
                                    handled \cup {key}, Append(log, r.inlined))
                IN  continue(resolveCycle(schema, rawFragments, fragmentDeps, a, b))

\* "Fragment generation with cycle detection and fallback inlining", up to
\* the contents written to the fragment files; threw tells that the cycle
\* detection threw, and then nothing is to be written
generateFragments(schema) ==
  LET written(rawFragments) ==
        [i \in 1..Len(rawFragments) |->
           [typeName |-> rawFragments[i].typeName,
            file |-> toKebabCase(rawFragments[i].typeName) \o ".fragment.gql",
            text |-> trim(rawFragments[i].fragment) \o "\n"]]
      write(raw, cycles, resolved) ==
        [threw |-> FALSE, raw |-> raw, cycles |-> cycles, inlines |-> resolved.inlines,
         deps |-> resolved.fragmentDeps,
         written |-> written(resolved.rawFragments)]
      resolve(raw, fragmentDeps, cycles) ==
        write(raw, cycles, resolveCycles(schema, raw, fragmentDeps, cycles, 1, {}, << >>))
      detect(raw, keys, fragmentDeps) ==
        IF \* (fragmentDeps[b] || []).includes(a) throws a TypeError for
           \* some b of the loop: b names an inherited member
           \E i \in 1..Len(keys) :
             \E b \in Range(fragmentDeps[keys[i]]) :
               inheritedMember(DOMAIN fragmentDeps, b)
        THEN [threw |-> TRUE, raw |-> raw, cycles |-> << >>, inlines |-> << >>,
              deps |-> fragmentDeps, written |-> << >>]
        ELSE resolve(raw, fragmentDeps, detectCycles(fragmentDeps, keys))
      depsFor(raw, keys) ==
        detect(raw, keys, [t \in Range(keys) |-> fragmentDepsOf(fragmentOf(raw, t), 1)])
      keysOf(raw) == depsFor(raw, [i \in 1..Len(raw) |-> raw[i].typeName])
  IN  keysOf(generateRawFragments(schema))

(***************************************************************************)
(* Schema files the generator is run on                                    *)
(***************************************************************************)
Field(n, t) == [name |-> n, type |-> t, args |-> << >>]
FieldArgs(n, t, as) == [name |-> n, type |-> t, args |-> as]
Arg(n, t) == [name |-> n, type |-> t]
ObjectType(n, fs) == [name |-> n, astKind |-> "ObjectTypeDefinition", fields |-> fs,
                      interfaces |-> << >>, possibleTypes |-> << >>]
UnionType(n, members) == [name |-> n, astKind |-> "UnionTypeDefinition", fields |-> << >>,
                          interfaces |-> << >>, possibleTypes |-> members]

\* type Query { user(id: ID!): User  me: String  createOneUser(name: String): User
\*              users: UserConnection }
\* type User { id: ID!  name: String!  status: String }
\* type UserConnection { nodes: [User!]  totalCount: Int }
AccountSchema ==
  [query |-> "Query", mutation |-> "", subscription |-> "",
   types |-> <<
     ObjectType("Query", <<
       FieldArgs("user", Named("User"), <<Arg("id", NonNull(Named("ID")))>>),
       Field("me", Named("String")),
       FieldArgs("createOneUser", Named("User"), <<Arg("name", Named("String"))>>),
       Field("users", Named("UserConnection"))>>),
     ObjectType("User", <<
       Field("id", NonNull(Named("ID"))),
       Field("name", NonNull(Named("String"))),
       Field("status", Named("String"))>>),
     ObjectType("UserConnection", <<
       Field("nodes", ListOf(NonNull(Named("User")))),
       Field("totalCount", Named("Int"))>>)>>]

\* the next version of the account schema: user gains the argument full, me
\* returns the User, and the mutation type declares a root field user too
\* type Query { user(id: ID!, full: Boolean): User  me: User
\*              createOneUser(name: String): User  users: UserConnection }
\* type Mutation { user(name: String!): User }
AccountSchemaV2 ==
  [query |-> "Query", mutation |-> "Mutation", subscription |-> "",
   types |-> <<
     ObjectType("Query", <<
       FieldArgs("user", Named("User"),
                 <<Arg("id", NonNull(Named("ID"))), Arg("full", Named("Boolean"))>>),
       Field("me", Named("User")),
       FieldArgs("createOneUser", Named("User"), <<Arg("name", Named("String"))>>),
       Field("users", Named("UserConnection"))>>),
     ObjectType("Mutation", <<
       FieldArgs("user", Named("User"), <<Arg("name", NonNull(Named("String")))>>)>>),
     ObjectType("User", <<
       Field("id", NonNull(Named("ID"))),
       Field("name", NonNull(Named("String"))),
       Field("status", Named("String"))>>),
     ObjectType("UserConnection", <<
       Field("nodes", ListOf(NonNull(Named("User")))),
       Field("totalCount", Named("Int"))>>)>>]

\* two types that reference each other, named in lower case as in the README
\* type Query { item: product }
\* type product { id: ID!  status: String  price: Int  owner: user }
\* type user { id: ID!  status: String  item: product }
ShopSchema ==
  [query |-> "Query", mutation |-> "", subscription |-> "",
   types |-> <<
     ObjectType("Query", <<Field("item", Named("product"))>>),
     ObjectType("product", <<
       Field("id", NonNull(Named("ID"))),
       Field("status", Named("String")),
       Field("price", Named("Int")),
       Field("owner", Named("user"))>>),
     ObjectType("user", <<
       Field("id", NonNull(Named("ID"))),
       Field("status", Named("String")),
       Field("item", Named("product"))>>)>>]

\* the same shape with capitalised type names
\* type Query { a: A }
\* type A { id: ID!  b: B }
\* type B { id: ID!  a: A }
PairSchema ==
  [query |-> "Query", mutation |-> "", subscription |-> "",
   types |-> <<
     ObjectType("Query", <<Field("a", Named("A"))>>),
     ObjectType("A", <<Field("id", NonNull(Named("ID"))), Field("b", Named("B"))>>),
     ObjectType("B", <<Field("id", NonNull(Named("ID"))), Field("a", Named("A"))>>)>>]

\* a small type and a larger one that reference each other
\* type Query { team: team }
\* type team { id: ID!  lead: member }
\* type member { id: ID!  name: String!  email: String  team: team }
TeamSchema ==
  [query |-> "Query", mutation |-> "", subscription |-> "",
   types |-> <<
     ObjectType("Query", <<Field("team", Named("team"))>>),
     ObjectType("team", <<
       Field("id", NonNull(Named("ID"))),
       Field("lead", Named("member"))>>),
     ObjectType("member", <<
       Field("id", NonNull(Named("ID"))),
       Field("name", NonNull(Named("String"))),
       Field("email", Named("String")),
       Field("team", Named("team"))>>)>>]

\* three types that reference each other pairwise, so that a type is a side
\* of two mutual pairs
\* type Query { hub: hub }
\* type hub { id: ID!  name: String  email: String  x: big  y: mid }
\* type big { id: ID!  a: String  b: String  c: String  hub: hub  mid: mid }
\* type mid { id: ID!  m1: String  m2: String  m3: String  m4: String
\*            hub: hub  big: big }
HubSchema ==
  [query |-> "Query", mutation |-> "", subscription |-> "",
   types |-> <<
     ObjectType("Query", <<Field("hub", Named("hub"))>>),
     ObjectType("hub", <<
       Field("id", NonNull(Named("ID"))),
       Field("name", Named("String")),
       Field("email", Named("String")),
       Field("x", Named("big")),
       Field("y", Named("mid"))>>),
     ObjectType("big", <<
       Field("id", NonNull(Named("ID"))),
       Field("a", Named("String")),
       Field("b", Named("String")),
       Field("c", Named("String")),
       Field("hub", Named("hub")),
       Field("mid", Named("mid"))>>),
     ObjectType("mid", <<
       Field("id", NonNull(Named("ID"))),
       Field("m1", Named("String")),
       Field("m2", Named("String")),
       Field("m3", Named("String")),
       Field("m4", Named("String")),
       Field("hub", Named("hub")),
       Field("big", Named("big"))>>)>>]

\* two types of the same size that reference each other
\* type Query { left: left }
\* type left { id: ID!  right: right }
\* type right { id: ID!  left: left }
TwinSchema ==
  [query |-> "Query", mutation |-> "", subscription |-> "",
   types |-> <<
     ObjectType("Query", <<Field("left", Named("left"))>>),
     ObjectType("left", <<Field("id", NonNull(Named("ID"))), Field("right", Named("right"))>>),
     ObjectType("right", <<Field("id", NonNull(Named("ID"))), Field("left", Named("left"))>>)>>]

\* connection types: two fields of one type share a connection type, and
\* the connection type references itself
\* type Query { author: Author  latest: Post }
\* type Author { id: ID!  posts: PostConnection  drafts: PostConnection  name: String }
\* type PostConnection { nodes: [Post!]  totalCount: Int  next: PostConnection }
\* type Post { id: ID!  title: String  author: Author }
BlogSchema ==
  [query |-> "Query", mutation |-> "", subscription |-> "",
   types |-> <<
     ObjectType("Query", <<
       Field("author", Named("Author")),
       Field("latest", Named("Post"))>>),
     ObjectType("Author", <<
       Field("id", NonNull(Named("ID"))),
       Field("posts", Named("PostConnection")),
       Field("drafts", Named("PostConnection")),
       Field("name", Named("String"))>>),
     ObjectType("PostConnection", <<
       Field("nodes", ListOf(NonNull(Named("Post")))),
       Field("totalCount", Named("Int")),
       Field("next", Named("PostConnection"))>>),
     ObjectType("Post", <<
       Field("id", NonNull(Named("ID"))),
       Field("title", Named("String")),
       Field("author", Named("Author"))>>)>>]

\* the next version of the blog schema: latest returns the Author
BlogSchemaV2 ==
  [query |-> "Query", mutation |-> "", subscription |-> "",
   types |-> <<
     ObjectType("Query", <<
       Field("author", Named("Author")),
       Field("latest", Named("Author"))>>),
     ObjectType("Author", <<
       Field("id", NonNull(Named("ID"))),
       Field("posts", Named("PostConnection")),
       Field("drafts", Named("PostConnection")),
       Field("name", Named("String"))>>),
     ObjectType("PostConnection", <<
       Field("nodes", ListOf(NonNull(Named("Post")))),
       Field("totalCount", Named("Int")),
       Field("next", Named("PostConnection"))>>),
     ObjectType("Post", <<
       Field("id", NonNull(Named("ID"))),
       Field("title", Named("String")),
       Field("author", Named("Author"))>>)>>]

\* a chain of edge types longer than the recursion ceiling, closed into a
\* cycle by its last type
\* type Query { root: Root }
\* type Root { id: ID!  a: AEdge }
\* type AEdge { b: BEdge }   type BEdge { c: CEdge }   type CEdge { d: DEdge }
\* type DEdge { e: EEdge }   type EEdge { f: FEdge  tag: Tag }
\* type FEdge { g: GEdge }   type GEdge { id: ID  a: AEdge }
\* type Tag { id: ID! }
ChainSchema ==
  [query |-> "Query", mutation |-> "", subscription |-> "",
   types |-> <<
     ObjectType("Query", <<Field("root", Named("Root"))>>),
     ObjectType("Root", <<
       Field("id", NonNull(Named("ID"))),
       Field("a", Named("AEdge"))>>),
     ObjectType("AEdge", <<Field("b", Named("BEdge"))>>),
     ObjectType("BEdge", <<Field("c", Named("CEdge"))>>),
     ObjectType("CEdge", <<Field("d", Named("DEdge"))>>),
     ObjectType("DEdge", <<Field("e", Named("EEdge"))>>),
     ObjectType("EEdge", <<Field("f", Named("FEdge")), Field("tag", Named("Tag"))>>),
     ObjectType("FEdge", <<Field("g", Named("GEdge"))>>),
     ObjectType("GEdge", <<
       Field("id", Named("ID")),
       Field("a", Named("AEdge"))>>),
     ObjectType("Tag", <<Field("id", NonNull(Named("ID")))>>)>>]

\* a root field that returns a union
\* type Query { search(term: String!): SearchResult  author: Author }
\* union SearchResult = Author | Post
\* type Author { id: ID!  name: String }
\* type Post { id: ID!  title: String  author: Author }
SearchSchema ==
  [query |-> "Query", mutation |-> "", subscription |-> "",
   types |-> <<
     ObjectType("Query", <<
       FieldArgs("search", Named("SearchResult"), <<Arg("term", NonNull(Named("String")))>>),
       Field("author", Named("Author"))>>),
     UnionType("SearchResult", <<"Author", "Post">>),
     ObjectType("Author", <<
       Field("id", NonNull(Named("ID"))),
       Field("name", Named("String"))>>),
     ObjectType("Post", <<
       Field("id", NonNull(Named("ID"))),
       Field("title", Named("String")),
       Field("author", Named("Author"))>>)>>]

\* schemas with names that Object.prototype has too: a root field named
\* constructor, and a type whose fragment is spread as ...valueOfFragment
ProtoSchema ==
  [query |-> "Query", mutation |-> "", subscription |-> "",
   types |-> <<
     ObjectType("Query", <<
       Field("me", Named("String")),
       Field("constructor", Named("String")),
       Field("user", Named("User"))>>),
     ObjectType("User", <<
       Field("id", NonNull(Named("ID"))),
       Field("name", NonNull(Named("String")))>>)>>]

ValueOfSchema ==
  [query |-> "Query", mutation |-> "", subscription |-> "",
   types |-> <<
     ObjectType("Query", <<
       Field("a", Named("Alpha"))>>),
     ObjectType("Alpha", <<
       Field("id", NonNull(Named("ID"))),
       Field("v", Named("ValueOf"))>>),
     ObjectType("ValueOf", <<
       Field("id", NonNull(Named("ID")))>>)>>]

NoSchema == [query |-> "", mutation |-> "", subscription |-> "", types |-> << >>]

\* what readFileSync(schemaPath) and buildASTSchema(parse(..)) give for each
\* path: "ok" with the schema, "malformed" when parse or buildASTSchema
\* throws, "unreadable" when readFileSync throws
SchemaFiles ==
  [path \in {"account.graphql", "account2.graphql", "shop.graphql", "pair.graphql",
             "team.graphql", "twin.graphql", "hub.graphql", "blog.graphql", "blog2.graphql",
             "chain.graphql", "search.graphql", "proto.graphql", "proto3.graphql",
             "broken.graphql", "missing.graphql"} |->
     CASE path = "account.graphql" -> [status |-> "ok", schema |-> AccountSchema]
       [] path = "account2.graphql" -> [status |-> "ok", schema |-> AccountSchemaV2]
       [] path = "shop.graphql" -> [status |-> "ok", schema |-> ShopSchema]
       [] path = "pair.graphql" -> [status |-> "ok", schema |-> PairSchema]
       [] path = "team.graphql" -> [status |-> "ok", schema |-> TeamSchema]
       [] path = "twin.graphql" -> [status |-> "ok", schema |-> TwinSchema]
       [] path = "hub.graphql" -> [status |-> "ok", schema |-> HubSchema]
       [] path = "blog.graphql" -> [status |-> "ok", schema |-> BlogSchema]
       [] path = "blog2.graphql" -> [status |-> "ok", schema |-> BlogSchemaV2]
       [] path = "chain.graphql" -> [status |-> "ok", schema |-> ChainSchema]
       [] path = "search.graphql" -> [status |-> "ok", schema |-> SearchSchema]
       [] path = "proto.graphql" -> [status |-> "ok", schema |-> ProtoSchema]
       [] path = "proto3.graphql" -> [status |-> "ok", schema |-> ValueOfSchema]
       [] path = "broken.graphql" -> [status |-> "malformed", schema |-> NoSchema]
       [] path = "missing.graphql" -> [status |-> "unreadable", schema |-> NoSchema]]

\* the schema files of the account project, of the shop project and of the
\* blog project
AccountPaths == {"account.graphql", "account2.graphql", "proto.graphql",
                 "broken.graphql", "missing.graphql"}
CyclePaths == {"shop.graphql", "pair.graphql", "team.graphql", "twin.graphql",
               "hub.graphql", "proto3.graphql"}
BlogPaths == {"blog.graphql", "blog2.graphql", "chain.graphql", "search.graphql"}

(***************************************************************************)
(* Orchestrator: one run                                                   *)
(***************************************************************************)
\* fs.writeFileSync of every entry of written, in order
RECURSIVE writeFragments(_, _, _)
writeFragments(frags, written, i) ==
  IF i > Len(written) THEN frags
  ELSE writeFragments((written[i].file :> written[i].text) @@ frags, written, i + 1)

\* the values mapExistingOperations(documentsDir) can return for the files
\* docs, one for each listing (they differ only when two files hold an
\* operation for the same root field)
existingOpsChoices(docs) ==
  LET scanned == scanFiles(docs)
  IN  {indexFiles(EmptyIndex, scanned, order, 1) : order \in Listings(DOMAIN docs)}

\* generateGQLFiles with a fault: the output directories are made before the
\* schema is read and parsed
generateGQLFilesEnsureFirst(schemaPath, out, rawMode, existingOps) ==
  LET file == SchemaFiles[schemaPath]
      schema == file.schema
      done(merged, frags) ==
        IF merged.threw
        THEN [status |-> "threw",
              dirs |-> out.dirs \cup {"fragments", "documents"},
              documents |-> merged.docs, fragments |-> out.fragments,
              existingOps |-> existingOps, merges |-> merged.merges,
              raw |-> << >>, cycles |-> << >>, inlines |-> << >>,
              deps |-> EmptyMap, written |-> << >>]
        ELSE
        [status |-> IF frags.threw THEN "threw" ELSE "done",
         dirs |-> out.dirs \cup {"fragments", "documents"},
         documents |-> merged.docs,
         fragments |-> writeFragments(out.fragments, frags.written, 1),
         existingOps |-> existingOps,
         merges |-> merged.merges,
         raw |-> frags.raw,
         cycles |-> frags.cycles,
         inlines |-> frags.inlines,
         deps |-> frags.deps,
         written |-> frags.written]
  IN  IF file.status # "ok"
      THEN [status |-> "aborted", dirs |-> out.dirs \cup {"fragments", "documents"},
            documents |-> out.documents,
            fragments |-> out.fragments, existingOps |-> EmptyIndex,
            merges |-> << >>, raw |-> << >>, cycles |-> << >>, inlines |-> << >>,
            deps |-> EmptyMap, written |-> << >>]
      ELSE done(mergeLoop(schema, existingOps, enumerateOperations(schema, rawMode),
                          1, {}, out.documents, << >>),
                generateFragments(schema))

\* generateGQLFiles(schemaPath, outDir) on the output tree out = [dirs,
\* documents, fragments], with the raw mode flag the process was started with
\* and the index existingOps that mapExistingOperations returned
generateGQLFiles(schemaPath, out, rawMode, existingOps) ==
  LET file == SchemaFiles[schemaPath]
      schema == file.schema
      \* merged: the documents after the operation loop, frags: the fragments;
      \* an exception in the loop or in the cycle detection ends the run
      \* ("threw") with what was written until then
      done(merged, frags) ==
        IF merged.threw
        THEN [status |-> "threw",
              dirs |-> out.dirs \cup {"fragments", "documents"},
              documents |-> merged.docs, fragments |-> out.fragments,
              existingOps |-> existingOps, merges |-> merged.merges,
              raw |-> << >>, cycles |-> << >>, inlines |-> << >>,
              deps |-> EmptyMap, written |-> << >>]
        ELSE
        [status |-> IF frags.threw THEN "threw" ELSE "done",
         dirs |-> out.dirs \cup {"fragments", "documents"},
         documents |-> merged.docs,
         fragments |-> writeFragments(out.fragments, frags.written, 1),
         existingOps |-> existingOps,
         merges |-> merged.merges,
         raw |-> frags.raw,
         cycles |-> frags.cycles,
         inlines |-> frags.inlines,
         deps |-> frags.deps,
         written |-> frags.written]
  IN  IF file.status # "ok"
      THEN [status |-> "aborted", dirs |-> out.dirs, documents |-> out.documents,
            fragments |-> out.fragments, existingOps |-> EmptyIndex,
            merges |-> << >>, raw |-> << >>, cycles |-> << >>, inlines |-> << >>,
            deps |-> EmptyMap, written |-> << >>]
      ELSE done(mergeLoop(schema, existingOps, enumerateOperations(schema, rawMode),
                          1, {}, out.documents, << >>),
                generateFragments(schema))

\* the steps of the loop "Generate or update operations" from the i-th merge
\* on, docs being the documents directory at that point: the operation is
\* generated, the target file is read if it exists, and it is written
RECURSIVE mergeSteps(_, _, _)
mergeSteps(docs, merges, i) ==
  IF i > Len(merges) THEN << >>
  ELSE <<[step |-> "generateOperation", file |-> merges[i].file]>>
         \o (IF merges[i].file \in DOMAIN docs
             THEN <<[step |-> "readFileSync", file |-> merges[i].file]>> ELSE << >>)
         \o <<[step |-> "writeFileSync", file |-> merges[i].file]>>
         \o mergeSteps((merges[i].file :> merges[i].after) @@ docs, merges, i + 1)

\* the steps of one run of generateGQLFiles that ran to its end, in the order
\* of the source: the index of the existing operations is read, the
\* operations are merged one by one, the fragments are generated and their
\* cycles resolved, the fragment files are written
runSteps(before, merges, written) ==
  <<[step |-> "mapExistingOperations", file |-> ""]>>
    \o mergeSteps(before.documents, merges, 1)
    \o <<[step |-> "generateFragments", file |-> ""]>>
    \o [i \in 1..Len(written) |-> [step |-> "writeFileSync", file |-> written[i].file]]

(***************************************************************************)
(* Edits the user makes to the documents between runs (README, Usage)      *)
(***************************************************************************)
\* every operation block of content, as opRegex matches them, in order
RECURSIVE operationBlocks(_, _)
operationBlocks(content, from) ==
  LET collect(m) == IF ~m.ok THEN << >> ELSE <<m>> \o operationBlocks(content, m.end + 1)
  IN  collect(opRegexExec(content, from))

\* content without the block m, blank lines around the gap closed
cutBlock(content, m) ==
  LET close(head, tail) ==
        IF head = "" /\ tail = "" THEN ""
        ELSE IF head = "" THEN tail \o "\n"
        ELSE IF tail = "" THEN head \o "\n"
        ELSE head \o "\n\n" \o tail \o "\n"
  IN  close(trim(SubSeq(content, 1, m.start - 1)),
            trim(SubSeq(content, m.end + 1, Len(content))))

\* content with the block text pasted at its end
pasteBlock(content, block) ==
  LET paste(trimmed) == IF trimmed = "" THEN block \o "\n"
                        ELSE trimmed \o "\n\n" \o block \o "\n"
  IN  paste(trim(content))

\* the block m with its operation name changed to name
renameBlock(content, m, name) ==
  LET nameAt == SkipClass(content, m.start + Len(m.type), WhiteChars)
  IN  SubSeq(content, 1, nameAt - 1) \o name
        \o SubSeq(content, nameAt + Len(m.name), Len(content))

\* the function docs without the file f

(***************************************************************************)
(* State                                                                   *)
(***************************************************************************)
VARIABLES
  dirs,        \* which of the directories "fragments" and "documents" of outDir exist
  documents,   \* documents directory: file name -> content
  fragments,   \* fragments directory: file name -> content
  lastRun,     \* what the last run of generateGQLFiles did
  runs,        \* number of runs so far
  edits,       \* number of user edits so far
  selection,   \* one type handed to getMinimalScalarFields, and what it returned
  cli,         \* the dart-ql process: its step, its exit, and outDir/schema.gql
  probe        \* one type reference handed to formatTypeString and
               \* unwrapTypeName, and what they returned

vars == <<dirs, documents, fragments, lastRun, runs, edits, selection, cli, probe>>

\* bounds of the exploration
MaxRuns == 2
MaxEdits == 1
MaxFields == 4

\* file the user moves operations to, and the name the user gives them
EditFiles == {"account.gql"}
EditNames == {"GetUser"}

NoTree == [dirs |-> {}, documents |-> EmptyMap, fragments |-> EmptyMap]

NoRun ==
  [status |-> "none", schemaPath |-> "", rawMode |-> FALSE, repeat |-> FALSE,
   editsAt |-> 0, before |-> NoTree, existingOps |-> EmptyIndex, merges |-> << >>,
   raw |-> << >>, cycles |-> << >>, inlines |-> << >>, deps |-> EmptyMap,
   written |-> << >>]

NoSelection == [fields |-> << >>, applied |-> 0, selected |-> << >>]

\* no type reference has been handed over
NoProbe == [base |-> "", layers |-> << >>, applied |-> 0, text |-> "", name |-> ""]

\* a file that does not exist, and a file with the text text
NoFile == [exists |-> FALSE, text |-> ""]
FileOf(text) == [exists |-> TRUE, text |-> text]

\* no process has run: exit -1; schemaGql is the file outDir/schema.gql, pc
\* is where the process is ("idle": none is running), opts its options and
\* before what it found when it started
NoCli ==
  [pc |-> "idle", exit |-> -1, cause |-> "", called |-> FALSE, schemaGql |-> NoFile,
   before |-> [tree |-> NoTree, schemaGql |-> NoFile, edits |-> 0], 
   opts |-> [schemaOpt |-> "", fromUrl |-> "", rawMode |-> FALSE]]

Init ==
  /\ dirs = {}
  /\ documents = EmptyMap
  /\ fragments = EmptyMap
  /\ lastRun = NoRun
  /\ runs = 0
  /\ edits = 0
  /\ selection = NoSelection
  /\ cli = NoCli
  /\ probe = NoProbe

\* one call generateGQLFiles(schemaPath, outDir) in a process started with or
\* without --raw, and what it leaves on disk
Run(schemaPath, rawMode) ==
  /\ runs < MaxRuns
  /\ \E existingOps \in existingOpsChoices(documents) :
       \E before \in {[dirs |-> dirs, documents |-> documents, fragments |-> fragments]} :
       \E r \in {generateGQLFiles(schemaPath, before, rawMode, existingOps)} :
           /\ dirs' = r.dirs
           /\ documents' = r.documents
           /\ fragments' = r.fragments
           /\ lastRun' = [status |-> r.status, schemaPath |-> schemaPath,
                          rawMode |-> (rawMode /\ r.status = "done"),
                          repeat |-> /\ lastRun.status = "done"
                                     /\ r.status = "done"
                                     /\ lastRun.schemaPath = schemaPath
                                     /\ lastRun.rawMode = rawMode
                                     /\ lastRun.editsAt = edits,
                          editsAt |-> edits, before |-> before,
                          existingOps |-> r.existingOps, merges |-> r.merges,
                          raw |-> r.raw, cycles |-> r.cycles,
                          inlines |-> r.inlines, deps |-> r.deps,
                          written |-> r.written]
  /\ runs' = runs + 1
  /\ UNCHANGED <<edits, selection, probe>>

\* one run of the generator: node cli --schema schemaPath [--raw]
Generate(schemaPath, rawMode) ==
  /\ Run(schemaPath, rawMode)
  /\ UNCHANGED cli

\* the user moves the k-th operation of file from to file to
MoveOperation(from, k, to) ==
  /\ edits < MaxEdits
  /\ to # from
  /\ \E block \in {operationBlocks(documents[from], 1)[k]} :
     \E rest \in {cutBlock(documents[from], block)} :
     \E dest \in {IF to \in DOMAIN documents THEN documents[to] ELSE ""} :
     \E moved \in {(to :> pasteBlock(dest, block.full)) @@ documents} :
       documents' = IF rest = "" THEN [g \in DOMAIN moved \ {from} |-> moved[g]]
                    ELSE (from :> rest) @@ moved
  /\ edits' = edits + 1
  /\ UNCHANGED <<dirs, fragments, lastRun, runs, selection, cli, probe>>

\* the user renames the k-th operation of file to name
RenameOperation(file, k, name) ==
  /\ edits < MaxEdits
  /\ \E block \in {operationBlocks(documents[file], 1)[k]} :
       /\ block.name # name
       /\ documents' = (file :> renameBlock(documents[file], block, name)) @@ documents
  /\ edits' = edits + 1
  /\ UNCHANGED <<dirs, fragments, lastRun, runs, selection, cli, probe>>

\* the edits open to the user: any operation of any document
UserEdit ==
  /\ edits < MaxEdits
  /\ \E file \in DOMAIN documents :
       \E k \in 1..Len(operationBlocks(documents[file], 1)) :
         \/ \E to \in EditFiles : MoveOperation(file, k, to)
         \/ \E name \in EditNames : RenameOperation(file, k, name)

\* the account project: runs on the versions of its schema, and user edits
Next ==
  \/ \E schemaPath \in AccountPaths, rawMode \in BOOLEAN : Generate(schemaPath, rawMode)
  \/ UserEdit

Spec == Init /\ [][Next]_vars

\* the shop project: runs on schemas whose types reference each other
NextCycles ==
  \/ \E schemaPath \in CyclePaths, rawMode \in BOOLEAN : Generate(schemaPath, rawMode)
  \/ UserEdit

SpecCycles == Init /\ [][NextCycles]_vars

\* the blog project: runs on schemas with connection and edge types
NextBlog ==
  \/ \E schemaPath \in BlogPaths, rawMode \in BOOLEAN : Generate(schemaPath, rawMode)
  \/ UserEdit

SpecBlog == Init /\ [][NextBlog]_vars

(***************************************************************************)
(* getMinimalScalarFields on its own: every type T of up to MaxFields      *)
(* scalar fields                                                           *)
(***************************************************************************)
ScalarNames == {"id", "username", "status", "bio", "age"}

\* String, String!, [String!] and [String]
ScalarShapes ==
  {Named("String"), NonNull(Named("String")), ListOf(NonNull(Named("String"))),
   ListOf(Named("String"))}

\* the field lists a type can declare: field names are unique within a type
FieldLists ==
  UNION {{fs \in [1..n -> {Field(name, shape) : name \in ScalarNames, shape \in ScalarShapes}] :
            \A i, j \in 1..n : i # j => fs[i].name # fs[j].name} : n \in 0..MaxFields}

\* type T { <fields> }
ScalarSchema(fields) ==
  [query |-> "", mutation |-> "", subscription |-> "",
   types |-> <<ObjectType("T", fields)>>]

InitScalars ==
  /\ dirs = {}
  /\ documents = EmptyMap
  /\ fragments = EmptyMap
  /\ lastRun = NoRun
  /\ runs = 0
  /\ edits = 0
  /\ selection \in {[fields |-> fs, applied |-> 0, selected |-> << >>] :
                      fs \in FieldLists}
  /\ cli = NoCli
  /\ probe = NoProbe

\* getMinimalScalarFields("T", schema)
Select ==
  /\ selection.applied = 0
  /\ selection' = [selection EXCEPT
                     !.applied = 1,
                     !.selected = getMinimalScalarFields("T", ScalarSchema(selection.fields))]
  /\ UNCHANGED <<dirs, documents, fragments, lastRun, runs, edits, cli, probe>>

NextScalars == Select

SpecScalars == InitScalars /\ [][NextScalars]_vars

(***************************************************************************)
(* The command line (bin/dart-ql): one process from its options to its     *)
(* exit, in the steps other processes can see                              *)
(***************************************************************************)
\* the endpoints --from-url can name
UpUrl == "http://up/graphql"
DownUrl == "http://down/graphql"

\* what npx get-graphql-schema <url> does for each endpoint: it prints the
\* schema text, or prints nothing and fails.  A schema text is written as
\* the name of the local schema file that holds the same text.
Endpoints ==
  [url \in {UpUrl, DownUrl} |->
     IF url = UpUrl THEN [up |-> TRUE, sdl |-> "account.graphql"]
     ELSE [up |-> FALSE, sdl |-> ""]]

\* the process ends: in process.exit(1) before it has called
\* generateGQLFiles (cause "missing" or "download"), or after
\* generateGQLFiles returned or threw (status is how the run ended); an
\* exception that generateGQLFiles throws is not caught, so node exits with
\* status 1
exitWith(cause, status, before) ==
  [pc |-> "idle",
   exit |-> IF cause = "" /\ status = "done" THEN 0 ELSE 1,
   cause |-> IF cause # "" THEN cause
             ELSE IF status = "done" THEN "" ELSE "exception",
   called |-> cause = "", schemaGql |-> cli.schemaGql, before |-> before,
   opts |-> NoCli.opts]

\* dart-ql [--schema schemaOpt] [--from-url fromUrl] [--raw] starts.  Without
\* --from-url the process runs to its exit.  With it, mkdirSync can throw;
\* otherwise execSync starts the shell, which opens the target of the
\* redirection, and so creates or truncates it, before the tool runs: the
\* process then waits for the child.
CliStart(schemaOpt, fromUrl, rawMode) ==
  /\ cli.pc = "idle"
  /\ runs < MaxRuns
  /\ \E before \in {[tree |-> [dirs |-> dirs, documents |-> documents,
                               fragments |-> fragments],
                     schemaGql |-> cli.schemaGql, edits |-> edits]} :
       IF fromUrl # ""
       THEN \/ /\ cli' = exitWith("download", "", before)
               /\ runs' = runs + 1
               /\ UNCHANGED <<dirs, documents, fragments, lastRun, edits, selection, probe>>
            \/ /\ cli' = [pc |-> "fetching", exit |-> -1, cause |-> "",
                          called |-> FALSE, schemaGql |-> FileOf(""),
                          before |-> before,
                          opts |-> [schemaOpt |-> schemaOpt, fromUrl |-> fromUrl,
                                    rawMode |-> rawMode]]
               /\ UNCHANGED <<dirs, documents, fragments, lastRun, runs, edits,
                              selection, probe>>
       ELSE IF schemaOpt = ""
       THEN /\ cli' = exitWith("missing", "", before)
            /\ runs' = runs + 1
            /\ UNCHANGED <<dirs, documents, fragments, lastRun, edits, selection, probe>>
       ELSE /\ Run(schemaOpt, rawMode)
            /\ cli' = exitWith("", lastRun'.status, before)

\* the child of execSync ends: the tool has printed the schema into
\* schema.gql, or it has failed and execSync throws
CliFetched ==
  /\ cli.pc = "fetching"
  /\ IF Endpoints[cli.opts.fromUrl].up
     THEN /\ cli' = [cli EXCEPT !.pc = "fetched",
                                !.schemaGql = FileOf(Endpoints[cli.opts.fromUrl].sdl)]
          /\ UNCHANGED runs
     ELSE /\ cli' = exitWith("download", "", cli.before)
          /\ runs' = runs + 1
  /\ UNCHANGED <<dirs, documents, fragments, lastRun, edits, selection, probe>>

\* after the download schemaPath is outDir/schema.gql: generateGQLFiles reads
\* the text the file holds then
CliGenerate ==
  /\ cli.pc = "fetched"
  /\ Run(cli.schemaGql.text, cli.opts.rawMode)
  /\ cli' = exitWith("", lastRun'.status, cli.before)

\* the account project driven through the command line, and user edits,
\* which another process can make while dart-ql waits for the download
NextCli ==
  \/ \E schemaOpt \in {"", "account.graphql", "account2.graphql", "broken.graphql"},
        fromUrl \in {"", UpUrl, DownUrl}, rawMode \in BOOLEAN :
       CliStart(schemaOpt, fromUrl, rawMode)
  \/ CliFetched
  \/ CliGenerate
  \/ UserEdit

SpecCli == Init /\ [][NextCli]_vars
(***************************************************************************)
(* formatTypeString and unwrapTypeName on their own: every type reference  *)
(* of up to MaxWraps list and non-null layers around a named type          *)
(***************************************************************************)
MaxWraps == 4

\* the layers around the named type, innermost first.  graphql-js builds no
\* non-null layer around a non-null layer (GraphQLNonNull rejects it, and the
\* type grammar has no "!!").
LayerLists ==
  UNION {{ls \in [1..n -> {"List", "NonNull"}] :
            \A i \in 1..(n - 1) : ~(ls[i] = "NonNull" /\ ls[i + 1] = "NonNull")} :
         n \in 0..MaxWraps}

\* the type reference with the given layers around the type named base
RECURSIVE wrapType(_, _)
wrapType(base, layers) ==
  IF Len(layers) = 0 THEN Named(base)
  ELSE IF layers[Len(layers)] = "NonNull"
       THEN NonNull(wrapType(base, SubSeq(layers, 1, Len(layers) - 1)))
       ELSE ListOf(wrapType(base, SubSeq(layers, 1, Len(layers) - 1)))

InitTypes ==
  /\ dirs = {}
  /\ documents = EmptyMap
  /\ fragments = EmptyMap
  /\ lastRun = NoRun
  /\ runs = 0
  /\ edits = 0
  /\ selection = NoSelection
  /\ cli = NoCli
  /\ probe \in {[base |-> b, layers |-> ls, applied |-> 0, text |-> "", name |-> ""] :
                  b \in {"String", "ID", "User"}, ls \in LayerLists}

\* formatTypeString(type) and unwrapTypeName(type)
Format ==
  /\ probe.applied = 0
  /\ probe' = [probe EXCEPT
                 !.applied = 1,
                 !.text = formatTypeString(wrapType(probe.base, probe.layers)),
                 !.name = unwrapTypeName(wrapType(probe.base, probe.layers))]
  /\ UNCHANGED <<dirs, documents, fragments, lastRun, runs, edits, selection, cli>>

NextTypes == Format

SpecTypes == InitTypes /\ [][NextTypes]_vars

(***************************************************************************)
(* Properties: reading the state                                           *)
(***************************************************************************)
\* the state is the one the last run left: no edit was made since
AfterRun == lastRun.status # "none" /\ lastRun.editsAt = edits
AfterDone == lastRun.status = "done" /\ lastRun.editsAt = edits

\* the schema the last run read
runSchema ==
  IF lastRun.schemaPath \in DOMAIN SchemaFiles
  THEN SchemaFiles[lastRun.schemaPath].schema ELSE NoSchema

blocksOf(text) == operationBlocks(text, 1)
rootFieldOf(m) == rootMatchOf(m.body).rootField
fileText(docs, F) == IF F \in DOMAIN docs THEN docs[F] ELSE ""

\* the texts of the operations of text whose root field is f, in order
textsFor(text, f) ==
  LET bs == SelectSeq(blocksOf(text), LAMBDA m : rootFieldOf(m) = f)
  IN  [i \in 1..Len(bs) |-> bs[i].full]

\* the root fields a schema declares, with the kind of their root type
rootDeclarations(schema) ==
  UNION {{[opType |-> d[1], field |-> f] :
            f \in IF d[2] = "" THEN {} ELSE Range(getType(schema, d[2]).fields)} :
         d \in {<<"query", schema.query>>, <<"mutation", schema.mutation>>,
                <<"subscription", schema.subscription>>}}

CrudPrefixes ==
  {"createOne", "updateOne", "deleteOne", "upsertOne", "aggregate", "findMany", "groupBy"}
ExcludedWords == {"Filter", "Edge", "Connection", "PageInfo", "Sort"}

hasCrudPrefix(name) ==
  \E p \in CrudPrefixes : Len(name) >= Len(p) /\ SubSeq(name, 1, Len(p)) = p
containsExcludedWord(name) ==
  \E w \in ExcludedWords : \E i \in 1..Len(name) :
    i + Len(w) - 1 <= Len(name) /\ SubSeq(name, i, i + Len(w) - 1) = w

\* the declaration passes the skip filters of a run in the given mode
passesFilters(d, rawMode) ==
  /\ ~containsExcludedWord(unwrapTypeName(d.field.type))
  /\ rawMode \/ ~hasCrudPrefix(d.field.name)

\* the indices of the merges the last run did for the root field name f
mergesFor(f) == {i \in 1..Len(lastRun.merges) : lastRun.merges[i].fieldName = f}

(***************************************************************************)
(* Properties of the account project (Spec)                                *)
(***************************************************************************)
\* C1: a run that repeats the run before it (same schema, same raw mode, no
\* edit in between, so it reads exactly the files that run left) leaves every
\* document file and every fragment file as it was and adds no file
IdempotentRegeneration ==
  (AfterDone /\ lastRun.repeat) =>
    /\ documents = lastRun.before.documents
    /\ fragments = lastRun.before.fragments
    /\ dirs = lastRun.before.dirs

\* a repeated raw run on the second account schema: three operations were
\* merged into blocks the first run wrote
IdempotentRegenerationSeen ==
  /\ AfterDone
  /\ lastRun.repeat
  /\ lastRun.rawMode
  /\ lastRun.schemaPath = "account2.graphql"
  /\ Len(lastRun.merges) = 3
  /\ \A i \in 1..Len(lastRun.merges) :
       textsFor(lastRun.merges[i].before, lastRun.merges[i].fieldName) # << >>
  /\ "user.fragment.gql" \in DOMAIN fragments

\* C2: an operation named N for root field f that file F holds before a run
\* (F and N being what the index records for f), f still being generated, is
\* after the run still in F under the name N, declares the newly generated
\* variables, and no other file has gained or changed an operation for f
StickyNameAndPlacement ==
  AfterDone =>
    \A F \in DOMAIN lastRun.before.documents :
      \A m \in Range(blocksOf(lastRun.before.documents[F])) :
        LET f == rootFieldOf(m)
            ops == SelectSeq(enumerateOperations(runSchema, lastRun.rawMode),
                             LAMBDA o : o.fieldName = f)
        IN  (/\ f \in DOMAIN lastRun.existingOps.own
             /\ lastRun.existingOps.own[f].file = F
             /\ lastRun.existingOps.own[f].opName = m.name
             /\ Len(ops) > 0)
            => /\ F \in DOMAIN documents
               /\ \E m2 \in Range(blocksOf(documents[F])) :
                    /\ rootFieldOf(m2) = f
                    /\ m2.name = m.name
                    /\ m2.vars = generateArgsString(ops[1].field.args,
                                                    inputTypes(runSchema)).vars
               /\ \A G \in (DOMAIN documents \cup DOMAIN lastRun.before.documents) \ {F} :
                    textsFor(fileText(documents, G), f)
                      = textsFor(fileText(lastRun.before.documents, G), f)

\* the user moved the operation user to account.gql, the schema then gave the
\* field a second argument: the operation is still in account.gql, declares
\* both variables, and user.gql has no operation for the field
StickyNameAndPlacementSeen ==
  /\ AfterDone
  /\ lastRun.schemaPath = "account2.graphql"
  /\ "account.gql" \in DOMAIN lastRun.before.documents
  /\ \E m \in Range(blocksOf(lastRun.before.documents["account.gql"])) :
       rootFieldOf(m) = "user" /\ m.name = "user" /\ m.vars = "($id: ID!)"
  /\ \E m \in Range(blocksOf(documents["account.gql"])) :
       rootFieldOf(m) = "user" /\ m.name = "user" /\ m.vars = "($id: ID!, $full: Boolean)"
  /\ textsFor(fileText(documents, "user.gql"), "user") = << >>

\* C3: a merge for root field f keeps every operation block of the file other
\* than the first block for f, text and order; so a run keeps every operation
\* whose root field it does not generate (gone from the schema, or skipped)
UnrelatedOperationsUntouched ==
  lastRun.status = "done" =>
    /\ \A i \in 1..Len(lastRun.merges) :
         LET e == lastRun.merges[i]
             B == blocksOf(e.before)
             A == blocksOf(e.after)
             hits == {k \in 1..Len(B) : rootFieldOf(B[k]) = e.fieldName}
         IN  IF hits = {}
             THEN /\ Len(A) = Len(B) + 1
                  /\ \A k \in 1..Len(B) : A[k].full = B[k].full
             ELSE /\ Len(A) = Len(B)
                  /\ \A k \in (1..Len(B)) \ {MinOf(hits)} : A[k].full = B[k].full
    /\ (AfterDone =>
          \A F \in DOMAIN lastRun.before.documents :
            \A m \in Range(blocksOf(lastRun.before.documents[F])) :
              mergesFor(rootFieldOf(m)) = {} =>
                /\ F \in DOMAIN documents
                /\ m.full \in {x.full : x \in Range(blocksOf(documents[F]))})

\* a run without raw mode after a raw run: user.gql holds the operation
\* createOneUser, which this run skips, next to the operation user it merges
UnrelatedOperationsUntouchedSeen ==
  /\ AfterDone
  /\ ~lastRun.rawMode
  /\ mergesFor("createOneUser") = {}
  /\ \E i \in mergesFor("user") :
       /\ lastRun.merges[i].file = "user.gql"
       /\ textsFor(lastRun.merges[i].before, "user") # << >>
       /\ textsFor(lastRun.merges[i].before, "createOneUser") # << >>
       /\ textsFor(lastRun.merges[i].after, "createOneUser")
            = textsFor(lastRun.merges[i].before, "createOneUser")

\* C6: a root field with a CRUD prefix (return type not excluded) gets an
\* operation exactly when the run is in raw mode; a root field without such
\* a prefix gets its operation in either mode
CrudSkipToggles ==
  lastRun.status = "done" =>
    \A d \in rootDeclarations(runSchema) :
      ~containsExcludedWord(unwrapTypeName(d.field.type)) =>
        LET produced == \E i \in mergesFor(d.field.name) :
                          textsFor(lastRun.merges[i].after, d.field.name) # << >>
        IN  IF hasCrudPrefix(d.field.name) THEN produced <=> lastRun.rawMode
            ELSE produced

\* a run without raw mode after a raw run: the operation createOneUser of the
\* raw run is on disk, this run generates none for it, and does for user
CrudSkipTogglesSeen ==
  /\ AfterDone
  /\ ~lastRun.rawMode
  /\ \E d \in rootDeclarations(runSchema) : d.field.name = "createOneUser"
  /\ textsFor(fileText(lastRun.before.documents, "user.gql"), "createOneUser") # << >>
  /\ mergesFor("createOneUser") = {}
  /\ mergesFor("user") # {}
  /\ mergesFor("me") # {}

\* C7: no fragment file exists for a type whose name contains Filter, Edge,
\* Connection, PageInfo or Sort, whatever the mode of the runs so far
NoFragmentForExcludedType ==
  /\ \A path \in DOMAIN SchemaFiles :
       \A t \in Range(SchemaFiles[path].schema.types) :
         containsExcludedWord(t.name) =>
           (toKebabCase(t.name) \o ".fragment.gql") \notin DOMAIN fragments
  /\ \A i \in 1..Len(lastRun.written) :
       ~containsExcludedWord(lastRun.written[i].typeName)

\* a raw run on a schema that declares UserConnection wrote the fragment of
\* User and none for UserConnection
NoFragmentForExcludedTypeSeen ==
  /\ AfterDone
  /\ lastRun.rawMode
  /\ \E t \in Range(runSchema.types) : t.name = "UserConnection"
  /\ "user.fragment.gql" \in DOMAIN fragments
  /\ "user-connection.fragment.gql" \notin DOMAIN fragments

\* C9 as amended: every root field name that passes the skip filters gets
\* exactly one merge, into one file, built from the first root type (query,
\* mutation, subscription) that declares a passing field of that name
OneOperationPerRootFieldName ==
  lastRun.status = "done" =>
    \A d \in rootDeclarations(runSchema) :
      passesFilters(d, lastRun.rawMode) =>
        LET rank(t) == IF t = "query" THEN 1 ELSE IF t = "mutation" THEN 2 ELSE 3
            first == MinOf({rank(e.opType) :
                              e \in {x \in rootDeclarations(runSchema) :
                                       /\ x.field.name = d.field.name
                                       /\ passesFilters(x, lastRun.rawMode)}})
        IN  /\ Cardinality(mergesFor(d.field.name)) = 1
            /\ \A i \in mergesFor(d.field.name) :
                 /\ rank(lastRun.merges[i].opType) = first
                 /\ Len(textsFor(lastRun.merges[i].after, d.field.name)) = 1

\* C9 as stated: every root field that passes the skip filters gets exactly
\* one merge of its own
OneOperationPerRootField ==
  lastRun.status = "done" =>
    \A d \in rootDeclarations(runSchema) :
      passesFilters(d, lastRun.rawMode) =>
        Cardinality({i \in mergesFor(d.field.name) :
                       lastRun.merges[i].opType = d.opType}) = 1

\* a run on the schema whose Query and Mutation both declare user: one merge
\* for the name user, built from the query field
OneOperationPerRootFieldNameSeen ==
  /\ lastRun.status = "done"
  /\ \E d \in rootDeclarations(runSchema) : d.opType = "mutation" /\ d.field.name = "user"
  /\ \E d \in rootDeclarations(runSchema) : d.opType = "query" /\ d.field.name = "user"
  /\ Cardinality(mergesFor("user")) = 1
  /\ \A i \in mergesFor("user") : lastRun.merges[i].opType = "query"

\* C10: a run whose schema file cannot be read or parsed leaves the output
\* tree as it found it: no directory made, no document or fragment file
\* written or changed
AbortedRunTouchesNothing ==
  (AfterRun /\ lastRun.status = "aborted") =>
    /\ dirs = lastRun.before.dirs
    /\ documents = lastRun.before.documents
    /\ fragments = lastRun.before.fragments

\* the first run of a project is given a malformed schema: no directory exists
AbortedRunTouchesNothingSeen ==
  /\ AfterRun
  /\ lastRun.status = "aborted"
  /\ lastRun.schemaPath = "broken.graphql"
  /\ runs = 1
  /\ dirs = {}
  /\ DOMAIN documents = {}
  /\ DOMAIN fragments = {}

(***************************************************************************)
(* Properties of the shop project (SpecCycles)                             *)
(***************************************************************************)
\* text holds a spread of the fragment of the type typeName
spreads(text, typeName) == includesStr(text, "..." \o fragmentName(typeName))

\* the lines of text, without the white space around them
lineSet(text) ==
  LET starts == {1} \cup {i + 1 : i \in {j \in 1..Len(text) : Ch(text, j) = "\n"}}
      stop(a) == IF IndexOf(text, "\n", a) = 0 THEN Len(text)
                 ELSE IndexOf(text, "\n", a) - 1
  IN  {trim(SubSeq(text, a, stop(a))) : a \in starts}

\* C4: when the schema has exactly two types with a fragment and the
\* generated fragment of each spreads the fragment of the other, neither of
\* the fragments the run writes spreads the other
MutualCyclesBroken ==
  lastRun.status = "done" =>
    \A i, j \in 1..Len(lastRun.raw) :
      (/\ Len(lastRun.raw) = 2
       /\ i # j
       /\ spreads(lastRun.raw[i].fragment, lastRun.raw[j].typeName)
       /\ spreads(lastRun.raw[j].fragment, lastRun.raw[i].typeName))
      => \A w \in Range(lastRun.written) :
           /\ w.typeName = lastRun.raw[i].typeName => ~spreads(w.text, lastRun.raw[j].typeName)
           /\ w.typeName = lastRun.raw[j].typeName => ~spreads(w.text, lastRun.raw[i].typeName)

\* C5: of the minimal fields of the type inlined into a fragment, those whose
\* name is a word of the fragment's text and is not id are written as
\* <lowerCamel(type)><Capitalized(field)>: <field>, the others bare; the
\* lines the fragment had before are kept as they were
DuplicateFieldAliasing ==
  lastRun.status = "done" =>
    \A k \in 1..Len(lastRun.inlines) :
      LET inl == lastRun.inlines[k]
          alias(f) == lowerFirst(inl.source) \o upperFirst(f) \o ": " \o f
          spreadLine == "..." \o fragmentName(inl.source)
      IN  /\ \A f \in Range(inl.fields) :
               IF f # "id" /\ f \in wordTokens(inl.before)
               THEN alias(f) \in lineSet(inl.after)
               ELSE f \in lineSet(inl.after) /\ alias(f) \notin lineSet(inl.after)
          /\ \A l \in lineSet(inl.before) \ {spreadLine} : l \in lineSet(inl.after)
          /\ \A l \in lineSet(inl.after) \ lineSet(inl.before) :
               \E f \in Range(inl.fields) : l \in {f, alias(f)}

\* product is inlined into the fragment of user, both declare id and status:
\* status of product is written productStatus: status, price and id bare,
\* and the status line of user itself is kept
DuplicateFieldAliasingSeen ==
  /\ lastRun.status = "done"
  /\ \E k \in 1..Len(lastRun.inlines) :
       LET inl == lastRun.inlines[k]
       IN  /\ inl.target = "user"
           /\ inl.source = "product"
           /\ inl.fields = <<"id", "price", "status">>
           /\ "status" \in lineSet(inl.before)
           /\ {"id", "price", "status", "productStatus: status"} \subseteq lineSet(inl.after)
           /\ "productId: id" \notin lineSet(inl.after)

(***************************************************************************)
(* Properties of getMinimalScalarFields (SpecScalars)                      *)
(***************************************************************************)
\* the index at which the type declares the field name
declIndex(name) ==
  CHOOSE i \in 1..Len(selection.fields) : selection.fields[i].name = name

\* twice the part of the score that the name gives: 1 for a key name, 0.5
\* for a short one
nameScore2(name) ==
  (IF \E w \in {"id", "name", "title", "email", "type"} : includesStr(toLowerCase(name), w)
   THEN 2 ELSE 0)
    + (IF Len(name) <= 5 THEN 1 ELSE 0)

\* the type reference is non-null
declaredNonNull(type) == type.kind = "NonNull"

\* the type reference is non-null, or a list of a non-null element type
nonNullOrListOfNonNull(type) ==
  \/ type.kind = "NonNull"
  \/ type.kind = "List" /\ type.ofType.kind = "NonNull"

\* the selection rule, for a given reading nn of "non-null": every field
\* that is nn, then the first 3 of the others (all when fewer), each group
\* by descending score (+2 when nn, plus the score of the name), equal scores
\* in declaration order
selectionRule(nn(_)) ==
  LET fs == selection.fields
      sel == selection.selected
      names == {fs[i].name : i \in 1..Len(fs)}
      at == [n \in names |-> declIndex(n)]
      nnNames == {n \in names : nn(fs[at[n]].type)}
      nullNames == names \ nnNames
      sc == [n \in names |-> (IF n \in nnNames THEN 4 ELSE 0) + nameScore2(n)]
      ahead(a, b) == \/ sc[a] > sc[b]
                     \/ sc[a] = sc[b] /\ at[a] < at[b]
      selSet == Range(sel)
      limit == IF Cardinality(nullNames) < 3 THEN Cardinality(nullNames) ELSE 3
  IN  /\ selSet \subseteq names
      /\ \A i, j \in 1..Len(sel) : i # j => sel[i] # sel[j]
      /\ nnNames \subseteq selSet
      /\ Cardinality(selSet \cap nullNames) = limit
      /\ \A i, j \in 1..Len(sel) :
           i < j => /\ ~(sel[i] \in nullNames /\ sel[j] \in nnNames)
                    /\ (sel[i] \in nnNames <=> sel[j] \in nnNames) => ahead(sel[i], sel[j])
      /\ \A a \in selSet \cap nullNames : \A b \in nullNames \ selSet : ahead(a, b)

\* C8 as amended: for a type with scalar fields the result is every field
\* whose type is non-null or a list of non-null elements, then at most 3 of
\* the other fields (exactly 3 when there are that many), each group in
\* descending score order, declaration order among equal scores; calling
\* again on the same type returns the same list
ScalarSelection ==
  (selection.applied = 1 /\ Len(selection.fields) > 0) =>
    /\ selectionRule(nonNullOrListOfNonNull)
    /\ selection.selected = getMinimalScalarFields("T", ScalarSchema(selection.fields))

\* C8 as stated: the same, "non-null" read as the field type being non-null
ScalarSelectionAsStated ==
  (selection.applied = 1 /\ Len(selection.fields) > 0) =>
    /\ selectionRule(declaredNonNull)
    /\ selection.selected = getMinimalScalarFields("T", ScalarSchema(selection.fields))

\* a type with a [String] field and three more nullable fields, two of them
\* of equal score: three fields come back, by score, the two of equal score
\* in declaration order, and the [String] field is the one left out
ScalarSelectionSeen ==
  /\ selection.applied = 1
  /\ selection.fields = <<Field("status", ListOf(Named("String"))),
                          Field("bio", Named("String")),
                          Field("age", Named("String")),
                          Field("username", Named("String"))>>
  /\ selection.selected = <<"username", "bio", "age">>

(***************************************************************************)
(* Which side of a cycle is rewritten (SpecCycles)                         *)
(***************************************************************************)
\* the fragment the last run generated for typeName, before cycle resolution
rawOf(typeName) ==
  (CHOOSE e \in Range(lastRun.raw) : e.typeName = typeName).fragment

\* the text the last run wrote to the fragment file of typeName
writtenOf(typeName) ==
  (CHOOSE w \in Range(lastRun.written) : w.typeName = typeName).text

\* the fragment text of typeName when the k-th resolution of the run starts:
\* as generated, or as the last earlier resolution that rewrote it left it
textAt(k, typeName) ==
  LET earlier == {j \in 1..(k - 1) : lastRun.inlines[j].target = typeName}
  IN  IF earlier = {} THEN rawOf(typeName)
      ELSE lastRun.inlines[CHOOSE j \in earlier : \A i \in earlier : i <= j].after

\* the size score of typeName when the k-th resolution starts: the lines of
\* its text then plus the dependencies it has then, one for every spread
\* that no earlier resolution has replaced
scoreAt(k, typeName) ==
  Cardinality({i \in 1..Len(textAt(k, typeName)) : Ch(textAt(k, typeName), i) = "\n"}) + 1
    + Len(SelectSeq(fragmentDepsOf(rawOf(typeName), 1),
                    LAMBDA d : \A j \in 1..(k - 1) :
                                 lastRun.inlines[j].target = typeName
                                   => lastRun.inlines[j].source # d))

\* the pair was detected first in the order <<a, b>>
detectedAs(a, b) ==
  \E c \in 1..Len(lastRun.cycles) :
    /\ lastRun.cycles[c] = <<a, b>>
    /\ \A d \in 1..(c - 1) : lastRun.cycles[d] # <<b, a>>

\* C14 as amended: for a detected mutual pair, the size scores being taken
\* when the pair is resolved, the side with the lower score (on equal scores
\* the second type of the pair as detected) is the one that is rewritten:
\* its spread of the other fragment is replaced by the minimal scalar fields
\* of the other, larger-scored type, and the dependency edge removed is the
\* one from the lower-scored side to the larger-scored side
LowerSideRewritten ==
  lastRun.status = "done" =>
    \A k \in 1..Len(lastRun.inlines) :
      LET inl == lastRun.inlines[k]
          alias(f) == lowerFirst(inl.source) \o upperFirst(f) \o ": " \o f
          \* the sides the resolutions of the run have inlined into typeName
          inlinedInto(typeName) ==
            {lastRun.inlines[j].source :
               j \in {i \in 1..Len(lastRun.inlines) : lastRun.inlines[i].target = typeName}}
      IN  /\ scoreAt(k, inl.target) <= scoreAt(k, inl.source)
          /\ scoreAt(k, inl.target) = scoreAt(k, inl.source)
               => detectedAs(inl.source, inl.target)
          /\ inl.before = textAt(k, inl.target)
          /\ spreads(inl.before, inl.source)
          /\ ~spreads(inl.after, inl.source)
          /\ inl.fields # << >>
          /\ \A f \in Range(inl.fields) :
               /\ f \in {fd.name : fd \in Range(getType(runSchema, inl.source).fields)}
               /\ f \in lineSet(inl.after) \/ alias(f) \in lineSet(inl.after)
          /\ writtenOf(inl.target) = trim(textAt(Len(lastRun.inlines) + 1, inl.target)) \o "\n"
          /\ ~spreads(writtenOf(inl.target), inl.source)
          /\ Range(lastRun.deps[inl.target])
               = Range(fragmentDepsOf(rawOf(inl.target), 1)) \ inlinedInto(inl.target)
          /\ inl.target \in Range(lastRun.deps[inl.source])

\* C14 as stated: for a detected mutual pair the side with the larger size
\* score is the one that is rewritten: its spread of the smaller side is
\* replaced, and the dependency edge removed is the one from the larger-scored
\* side to the smaller-scored side
LargerSideRewritten ==
  lastRun.status = "done" =>
    \A k \in 1..Len(lastRun.inlines) :
      LET inl == lastRun.inlines[k]
      IN  /\ scoreAt(k, inl.target) >= scoreAt(k, inl.source)
          /\ \A t \in {inl.target, inl.source} :
               \A s \in {inl.target, inl.source} \ {t} :
                 scoreAt(k, t) > scoreAt(k, s) =>
                   /\ ~spreads(writtenOf(t), s)
                   /\ s \notin Range(lastRun.deps[t])

\* hub is a side of the pairs with big and with mid, and big and mid are a
\* pair too.  hub (13 = 11 lines + 2 dependencies) is rewritten with the
\* fields of big (14), which makes its score 15; against mid (15) the scores
\* are then equal and mid, the second of the pair, is rewritten with the
\* fields of hub, which makes its score 16; big (14), whose fields the first
\* resolution inlined, is then rewritten with the fields of mid
LowerSideRewrittenSeen ==
  /\ lastRun.status = "done"
  /\ lastRun.schemaPath = "hub.graphql"
  /\ Len(lastRun.inlines) = 3
  /\ [k \in 1..3 |-> <<lastRun.inlines[k].target, lastRun.inlines[k].source>>]
       = << <<"hub", "big">>, <<"mid", "hub">>, <<"big", "mid">> >>
  /\ <<scoreAt(1, "hub"), scoreAt(1, "big")>> = <<13, 14>>
  /\ <<scoreAt(2, "mid"), scoreAt(2, "hub")>> = <<15, 15>>
  /\ <<scoreAt(3, "big"), scoreAt(3, "mid")>> = <<14, 16>>
  /\ lastRun.inlines[1].fields = <<"id", "a", "b", "c">>
  /\ {"id", "a", "b", "c"} \subseteq lineSet(writtenOf("hub"))
  /\ writtenOf("big") # trim(rawOf("big")) \o "\n"
  /\ lastRun.deps = ("hub" :> <<"mid">>) @@ ("big" :> <<"hub">>) @@ ("mid" :> <<"big">>)

(***************************************************************************)
(* Claims about the command line                                           *)
(***************************************************************************)
\* the output tree as the last process found it and as it left it
treeNow == [dirs |-> dirs, documents |-> documents, fragments |-> fragments]

\* C11: a process that ends because no schema was named or because the
\* download failed exits with status 1, has not called generateGQLFiles, and
\* leaves every file under outDir as it was when it started: the documents
\* and the fragments (no user edit in between) and schema.gql
FailedStartLeavesOutput ==
  (cli.exit = 1 /\ cli.cause \in {"missing", "download"}
                /\ edits = cli.before.edits) =>
    /\ ~cli.called
    /\ treeNow = cli.before.tree
    /\ cli.schemaGql = cli.before.schemaGql

(***************************************************************************)
(* Claims about the texts a run writes                                     *)
(***************************************************************************)
\* the merge found a block for its root field in the text it read
mergedIntoBlock(merge) == findExisting(merge.before, merge.fieldName, 1).ok

\* the new operation of the merge selects a fragment
selectsFragment(merge) == hasFragmentsFrom(merge.newOpStr, 1)

\* text ends with one "\n" that follows a character that is not white space
endsWithOneNewline(text) ==
  /\ Len(text) >= 2
  /\ Ch(text, Len(text)) = "\n"
  /\ Ch(text, Len(text) - 1) \notin WhiteChars

\* C12: every text a run writes to a document file, every document file it
\* wrote as it is after the run, and every fragment file it wrote end with
\* exactly one newline that follows a character that is not white space
OneTrailingNewline ==
  AfterDone =>
    /\ \A i \in 1..Len(lastRun.merges) :
         /\ endsWithOneNewline(lastRun.merges[i].after)
         /\ endsWithOneNewline(documents[lastRun.merges[i].file])
    /\ \A i \in 1..Len(lastRun.written) :
         /\ endsWithOneNewline(lastRun.written[i].text)
         /\ fragments[lastRun.written[i].file] = lastRun.written[i].text

\* one run took all three branches of the merge (a block replaced by a bare
\* field call, a block rewritten with the union of the spreads, an operation
\* appended to a file that held others) and wrote a fragment file
OneTrailingNewlineSeen ==
  /\ AfterDone
  /\ \E i, j, k \in 1..Len(lastRun.merges) :
       /\ mergedIntoBlock(lastRun.merges[i]) /\ ~selectsFragment(lastRun.merges[i])
       /\ mergedIntoBlock(lastRun.merges[j]) /\ selectsFragment(lastRun.merges[j])
       /\ ~mergedIntoBlock(lastRun.merges[k]) /\ lastRun.merges[k].before # ""
  /\ Len(lastRun.written) > 0

(***************************************************************************)
(* Claims about type references (SpecTypes)                                *)
(***************************************************************************)
NoTypeRead == [ok |-> FALSE, type |-> Named(""), next |-> 0]

\* the GraphQL type that starts at position p of s, as the type grammar
\* reads it (Type: Name | "[" Type "]" | Name "!" | "[" Type "]" "!"), and
\* the position behind it
RECURSIVE readTypeAt(_, _)
readTypeAt(s, p) ==
  LET nonNull(r) ==
        IF r.ok /\ r.next <= Len(s) /\ Ch(s, r.next) = "!"
        THEN [ok |-> TRUE, type |-> NonNull(r.type), next |-> r.next + 1]
        ELSE r
      list(inner) ==
        IF inner.ok /\ inner.next <= Len(s) /\ Ch(s, inner.next) = "]"
        THEN [ok |-> TRUE, type |-> ListOf(inner.type), next |-> inner.next + 1]
        ELSE NoTypeRead
      named(e) ==
        IF e = p THEN NoTypeRead
        ELSE [ok |-> TRUE, type |-> Named(SubSeq(s, p, e - 1)), next |-> e]
  IN  IF p > Len(s) THEN NoTypeRead
      ELSE nonNull(IF Ch(s, p) = "[" THEN list(readTypeAt(s, p + 1))
                   ELSE named(SkipClass(s, p, WordChars)))

\* s read as one GraphQL type, NoTypeRead when s is not one
readType(s) ==
  LET whole(r) == IF r.ok /\ r.next = Len(s) + 1 THEN r ELSE NoTypeRead
  IN  whole(readTypeAt(s, 1))

\* C13: for a type reference that wraps a named type in list and non-null
\* layers, the string formatTypeString returns reads back as the same
\* reference (the same layers in the same order around the same name), and
\* unwrapTypeName returns the name of the named type
TypeStringRoundTrip ==
  probe.applied = 1 =>
    /\ readType(probe.text).ok
    /\ readType(probe.text).type = wrapType(probe.base, probe.layers)
    /\ probe.name = probe.base

\* a non-null list of non-null String was formatted, to [String!]!
TypeStringRoundTripSeen ==
  /\ probe.applied = 1
  /\ probe.base = "String"
  /\ probe.layers = <<"NonNull", "List", "NonNull">>
  /\ probe.text = "[String!]!"
  /\ probe.name = "String"

(***************************************************************************)
(* Claims about the order of the steps of a run                            *)
(***************************************************************************)
\* the steps of the last run
lastSteps == runSteps(lastRun.before, lastRun.merges, lastRun.written)

\* C15: within a run no file is read after the first write of an output
\* file, and no file is written before every operation and every fragment
\* has been generated and the cycles resolved
ReadsThenGenerationThenWrites ==
  AfterDone =>
    \A i, j \in 1..Len(lastSteps) :
      (i < j /\ lastSteps[i].step = "writeFileSync") =>
        lastSteps[j].step = "writeFileSync"

(***************************************************************************)
(* Claims about mergeOperation (SpecBlog, Spec)                            *)
(***************************************************************************)
\* the block the merge found for its root field in the text it read, and
\* the block for that root field in the text it wrote
foundBlock(merge) == findExisting(merge.before, merge.fieldName, 1)
rewrittenBlock(merge) == findExisting(merge.after, merge.fieldName, 1)

\* the spread tokens of the found block, of the new operation and of the
\* rewritten block
oldSpreads(merge) == spreadTokens(foundBlock(merge).body, 1)
newSpreads(merge) == spreadTokens(merge.newOpStr, 1)
gotSpreads(merge) == spreadTokens(rewrittenBlock(merge).body, 1)

\* the first position of x in seq
firstAt(seq, x) == MinOf({i \in 1..Len(seq) : seq[i] = x})

\* C16: when a merge finds a block for its root field and the new operation
\* selects a fragment, the body of the rewritten block is the field call
\* (with the call-site arguments of the found block) around the spread
\* tokens of the found block in their order followed by the new tokens not
\* among them, each token once; no spread of the found block is dropped
SpreadUnionOnMerge ==
  AfterDone =>
    \A i \in 1..Len(lastRun.merges) :
      LET merge == lastRun.merges[i]
          all == oldSpreads(merge) \o newSpreads(merge)
          got == gotSpreads(merge)
      IN  (mergedIntoBlock(merge) /\ selectsFragment(merge)) =>
            /\ rewrittenBlock(merge).ok
            /\ rewrittenBlock(merge).body =
                 "\n  " \o merge.fieldName \o rootMatchOf(foundBlock(merge).body).callArgs
                   \o " {\n    " \o join(got, "\n    ") \o "\n  }"
            /\ Range(got) = Range(all)
            /\ \A a, b \in 1..Len(got) :
                 a < b => /\ got[a] # got[b]
                          /\ firstAt(all, got[a]) < firstAt(all, got[b])

\* a run rewrote a block that selected the fragment of Post with an
\* operation that selects the fragment of Author, and in the same run a block
\* whose spread is the new spread
SpreadUnionOnMergeSeen ==
  /\ AfterDone
  /\ \E i, j \in 1..Len(lastRun.merges) :
       /\ mergedIntoBlock(lastRun.merges[i]) /\ selectsFragment(lastRun.merges[i])
       /\ oldSpreads(lastRun.merges[i]) = <<"...postFragment">>
       /\ newSpreads(lastRun.merges[i]) = <<"...authorFragment">>
       /\ gotSpreads(lastRun.merges[i]) = <<"...postFragment", "...authorFragment">>
       /\ mergedIntoBlock(lastRun.merges[j]) /\ selectsFragment(lastRun.merges[j])
       /\ oldSpreads(lastRun.merges[j]) = <<"...authorFragment">>
       /\ gotSpreads(lastRun.merges[j]) = <<"...authorFragment">>

\* what mergeOperation returns for the inputs of the merge
returned(merge) == mergeOperation(merge.before, merge.newOpStr, merge.fieldName)

\* C17: when no block of the text a merge read has the root field as its
\* first body field (the text may be empty), mergeOperation returns the
\* trimmed text, a blank line, the new operation and one newline; every
\* block of the text read is in the text returned, unchanged and in place,
\* and the new operation is the one block behind them
AppendFallback ==
  AfterDone =>
    \A i \in 1..Len(lastRun.merges) :
      LET merge == lastRun.merges[i]
          old == blocksOf(merge.before)
          new == blocksOf(returned(merge))
      IN  ~mergedIntoBlock(merge) =>
            /\ returned(merge) = trim(merge.before) \o "\n\n" \o merge.newOpStr \o "\n"
            /\ merge.after = trim(returned(merge)) \o "\n"
            /\ Len(new) = Len(old) + 1
            /\ \A k \in 1..Len(old) : new[k].full = old[k].full
            /\ new[Len(new)].full = merge.newOpStr

\* one run appended an operation to a file that did not exist and another to
\* a file that held operations for other root fields
AppendFallbackSeen ==
  /\ AfterDone
  /\ \E i, j \in 1..Len(lastRun.merges) :
       /\ ~mergedIntoBlock(lastRun.merges[i]) /\ lastRun.merges[i].before = ""
       /\ lastRun.merges[i].file \notin DOMAIN lastRun.before.documents
       /\ ~mergedIntoBlock(lastRun.merges[j])
       /\ Len(blocksOf(lastRun.merges[j].before)) > 0

(***************************************************************************)
(* Claims about generateFragmentFields (SpecBlog)                          *)
(***************************************************************************)
RECURSIVE branchFields(_, _, _, _)
RECURSIVE branchFieldLoop(_, _, _, _, _)

\* the selection of type from its i-th field on when the cycle guard looks
\* at the current branch only: path holds the types inline-expanded by the
\* enclosing fields
branchFieldLoop(type, schema, depth, path, i) ==
  IF i > Len(type.fields) THEN << >>
  ELSE
    LET field == type.fields[i]
        fieldTypeName == unwrapTypeName(field.type)
        nestedType == getType(schema, fieldTypeName)
        rest == branchFieldLoop(type, schema, depth, path, i + 1)
    IN  IF fieldTypeName \in path THEN rest
        ELSE IF field.name \in ifaceFieldNamesOf(schema, type) THEN rest
        ELSE IF fieldTypeName = "ConnectionCursor" THEN rest
        ELSE IF nestedType.astKind \in {"InterfaceTypeDefinition", "UnionTypeDefinition"}
             THEN <<inlineFragmentsField(schema, field.name, nestedType)>> \o rest
        ELSE IF /\ hasGetFields(nestedType)
                /\ ~isScalarType(nestedType)
                /\ ~matchesNestedSkip(fieldTypeName)
             THEN <<field.name \o " {\n    ..." \o fragmentName(fieldTypeName) \o "\n  }">>
                    \o rest
        ELSE IF hasGetFields(nestedType) /\ ~isScalarType(nestedType)
             THEN LET sub == branchFields(nestedType, schema, depth + 1,
                                          path \cup {fieldTypeName})
                  IN  <<field.name \o " "
                          \o (IF Len(sub) # 0
                              THEN "{\n    " \o join(sub, "\n    ") \o "\n  }" ELSE "")>>
                        \o rest
        ELSE <<field.name>> \o rest

branchFields(type, schema, depth, path) ==
  IF ~hasGetFields(type) \/ depth > MaxDepth THEN << >>
  ELSE ifaceSpreads(schema, type) \o branchFieldLoop(type, schema, depth, path, 1)

\* the fragment of typeName built from that selection
branchFragment(typeName, schema) ==
  LET fields == branchFields(getType(schema, typeName), schema, 0, {})
  IN  IF Len(fields) = 0 THEN ""
      ELSE "fragment " \o fragmentName(typeName) \o " on " \o typeName \o " {\n  "
             \o join(fields, "\n  ") \o "\n}"

\* C18: every fragment a run generates is the one in which a field is left
\* out by the cycle guard exactly when its base type has been
\* inline-expanded by an enclosing field of the current branch, every other
\* field being emitted in declaration order
BranchLocalCycleGuard ==
  AfterDone =>
    \A i \in 1..Len(lastRun.raw) :
      lastRun.raw[i].fragment = branchFragment(lastRun.raw[i].typeName, runSchema)

\* how many selection sets are open behind position p of text, and the
\* deepest nesting of selection sets in text
openAt(text, p) ==
  Cardinality({i \in 1..p : Ch(text, i) = "{"}) - Cardinality({i \in 1..p : Ch(text, i) = "}"})
braceDepth(text) == MaxOf({openAt(text, p) : p \in 0..Len(text)})

\* C19: the derivation of the fragment fields ends for every type of the
\* schema of a run, cyclic references included, with at most one entry per
\* declared field; a call with depth > 5 returns the empty selection, so no
\* fragment nests selection sets deeper than the ceiling allows (the
\* fragment's own, one per inline expansion at depth 0 to 4, and that of a
\* fragment spread at depth 5)
ExpansionBounded ==
  AfterDone =>
    /\ \A t \in Range(runSchema.types) :
         /\ Len(generateFragmentFields(t, runSchema)) <= Len(t.fields) + Len(t.interfaces)
         /\ \A depth \in (MaxDepth + 1)..(MaxDepth + 2) :
              generateFragmentFieldsRec(t, runSchema, depth, {}).result = << >>
    /\ \A i \in 1..Len(lastRun.raw) : braceDepth(lastRun.raw[i].fragment) <= MaxDepth + 2

\* a run on the chain of edge types: the expansion stopped at the ceiling,
\* where field f has an empty selection, and the fragment nests as deep as
\* the ceiling allows
ExpansionBoundedSeen ==
  /\ AfterDone
  /\ lastRun.schemaPath = "chain.graphql"
  /\ includesStr(rawOf("Root"), "f \n")
  /\ ~includesStr(rawOf("Root"), "    g ")
  /\ braceDepth(rawOf("Root")) = MaxDepth + 2

\* the names of the variables ($name) that occur in s
variablesIn(s) ==
  {SubSeq(s, i + 1, SkipClass(s, i + 1, WordChars) - 1) :
     i \in {j \in 1..Len(s) : Ch(s, j) = "$"}}

\* C20: in the block a merge leaves for its root field, the variables the
\* header declares are the variables passed at the call site of the root
\* field, also when the arguments of the root field changed between two
\* runs and the operation was merged into an existing block
VariablesConsistent ==
  AfterDone =>
    \A i \in 1..Len(lastRun.merges) :
      LET block == rewrittenBlock(lastRun.merges[i])
      IN  /\ block.ok
          /\ variablesIn(block.vars) = variablesIn(rootMatchOf(block.body).callArgs)

(***************************************************************************)
(* Claims about the documents directory as a whole                         *)
(***************************************************************************)
\* the operation blocks of the document files whose root field is f, as
\* mergeOperation finds them, and the entries for f that the index of the
\* existing operations reads from the document files
blocksFor(f) ==
  UNION {{<<file, k>> : k \in {j \in 1..Len(blocksOf(documents[file])) :
                                 rootFieldOf(blocksOf(documents[file])[j]) = f}} :
         file \in DOMAIN documents}
entriesFor(f) ==
  UNION {{<<file, k>> : k \in {j \in 1..Len(mapRegexMatches(documents[file], 1)) :
                                 mapRegexMatches(documents[file], 1)[j].fieldName = f}} :
         file \in DOMAIN documents}

\* the root fields that have a block in some document file
fieldsOnDisk ==
  UNION {{rootFieldOf(m) : m \in Range(blocksOf(documents[file]))} : file \in DOMAIN documents}

\* C21: as long as the user has edited nothing, whatever runs were made from
\* the empty directory, every root field has at most one operation block
\* over all document files, for mergeOperation and for the index of the
\* existing operations alike
OneBlockPerRootField ==
  edits = 0 =>
    \A f \in fieldsOnDisk :
      /\ Cardinality(blocksFor(f)) = 1
      /\ Cardinality(entriesFor(f)) = 1

\* after two runs without edits, on the two versions of the account schema
\* and the second in raw mode: the block of me was merged in the file it was
\* in though its return type changed, user is declared by two root types,
\* createOneUser was appended, and each has one block
OneBlockPerRootFieldSeen ==
  /\ edits = 0 /\ runs = 2 /\ AfterDone
  /\ lastRun.schemaPath = "account2.graphql" /\ lastRun.rawMode
  /\ "string.gql" \in DOMAIN lastRun.before.documents
  /\ blocksFor("me") = {<<"string.gql", 1>>}
  /\ Cardinality(blocksFor("user")) = 1
  /\ Cardinality(blocksFor("createOneUser")) = 1
  /\ \E i \in mergesFor("me") : mergedIntoBlock(lastRun.merges[i])

\* the spreads of the fragments the last run wrote to the fragments directory
writtenSpreads == {"..." \o fragmentName(w.typeName) : w \in Range(lastRun.written)}

\* C22: every fragment spread in a fragment file a run wrote, and in an
\* operation the run generated, names a fragment the same run wrote to the
\* fragments directory
NoDanglingSpreads ==
  AfterDone =>
    /\ \A i \in 1..Len(lastRun.written) :
         Range(spreadTokens(lastRun.written[i].text, 1)) \subseteq writtenSpreads
    /\ \A i \in 1..Len(lastRun.merges) :
         Range(spreadTokens(lastRun.merges[i].newOpStr, 1)) \subseteq writtenSpreads

====
